---------------------------- MODULE Spec2Model ----------------------------
(***************************************************************************)
(* Wikipedia Tools for Google Spreadsheets (src/Wikipedia.gs.js).          *)
(*                                                                         *)
(* Every custom function is synchronous: it parses its arguments, builds   *)
(* one or more upstream requests, reads the responses and reshapes them    *)
(* into a value for the spreadsheet.  One step of the model is one call of *)
(* one entry point: the arguments and the upstream responses are chosen by *)
(* the environment, and the step records the requests the call issued, in  *)
(* order, and the value it returned (or that an exception escaped).        *)
(*                                                                         *)
(* JavaScript strings are sequences of one-character strings, so that the  *)
(* locator parsing, the whitespace and underscore replacements and the URL *)
(* encoding are computed character by character.                           *)
(***************************************************************************)
EXTENDS Integers, Sequences, FiniteSets, TLC

VARIABLES
    fn,        \* the entry point of the last call ("none" before any call)
    args,      \* its arguments
    upstream,  \* the upstream responses the call could read
    requests,  \* the upstream requests it issued, in order
    result,    \* the value it returned
    HEADERS,            \* the script's global: the options of every fetch
    DEFAULT_LANGUAGE    \* the script's global: the language of a bare title

vars == <<fn, args, upstream, requests, result, HEADERS, DEFAULT_LANGUAGE>>

\* the globals, which live as long as the script does
globals == <<HEADERS, DEFAULT_LANGUAGE>>

(***************************************************************************)
(* Bounds of the model.                                                    *)
(***************************************************************************)
\* longest locator of the exhaustive locator set
MaxLocatorLen == 3
\* most entries (elements, items, rows) in one upstream response
MaxEntries == 2

(***************************************************************************)
(* JavaScript values.                                                      *)
(***************************************************************************)
Undefined == [t |-> "undefined"]
Null == [t |-> "null"]
False == [t |-> "boolean", b |-> FALSE]
JsStr(s) == [t |-> "string", s |-> s]
JsNum(n) == [t |-> "number", n |-> n]
JsArr(a) == [t |-> "array", a |-> a]
JsDate(n) == [t |-> "date", n |-> n]
InvalidDate == [t |-> "date", invalid |-> TRUE]
\* the value of a call that did not return: an exception reached the caller
Exception == [t |-> "exception"]
\* the empty string, which every entry point uses as its "no data" result
EmptyString == JsStr(<<>>)

\* !v for the values an argument or a parsed field can take
Falsy(v) ==
    \/ v.t \in {"undefined", "null"}
    \/ v.t = "boolean" /\ ~v.b
    \/ v.t = "string" /\ v.s = <<>>
    \/ v.t = "number" /\ ("nan" \in DOMAIN v \/ v.n = 0)

\* results.length > 0 ? results : ''
NonEmptyOrEmptyString(results) ==
    IF Len(results) > 0 THEN JsArr(results) ELSE EmptyString

\* what a call leaves behind: the value returned and the requests issued
Outcome(ret, reqs) == [ret |-> ret, reqs |-> reqs]

(***************************************************************************)
(* Strings.                                                                *)
(***************************************************************************)
Colon == ":"
\* the characters the regular expression's "." does not match
LineTerminators == {"\n"}
\* the characters the regular expression's "\s" matches
WhiteSpace == {" ", "\n"}

\* article.indexOf(':'): the first position holding a colon, 0 when none
\* (positions count from 1 here, so 0 plays the part of JavaScript's -1)
IndexOfColon(s) ==
    IF \E i \in 1..Len(s) : s[i] = Colon
    THEN CHOOSE i \in 1..Len(s) :
             /\ s[i] = Colon
             /\ \A j \in 1..(i - 1) : s[j] # Colon
    ELSE 0

\* (category.match(/:/g) || []).length
CountColons(s) == Cardinality({i \in 1..Len(s) : s[i] = Colon})

\* SplitAtColon at the last colon instead of the first
SplitAtColon_LastColon(s) ==
    LET i == CHOOSE k \in 1..Len(s) :
                 s[k] = Colon /\ \A j \in (k + 1)..Len(s) : s[j] # Colon
        rest == SubSeq(s, i + 1, Len(s))
        stop == IF \E k \in 1..Len(rest) : rest[k] \in LineTerminators
                THEN CHOOSE k \in 1..Len(rest) :
                         /\ rest[k] \in LineTerminators
                         /\ \A j \in 1..(k - 1) : rest[j] \notin LineTerminators
                ELSE Len(rest) + 1
        capture == SubSeq(rest, 1, stop - 1)
    IN  [language |-> SubSeq(s, 1, i - 1),
         title |-> IF capture = <<>> THEN Undefined ELSE JsStr(capture)]

\* article.split(/:(.+)?/)[0] and [1]: the text before the first colon, and
\* the capture group, which is the longest run of characters other than line
\* terminators right after that colon, or undefined when that run is empty
SplitAtColon(s) ==
    LET i == IndexOfColon(s)
        rest == SubSeq(s, i + 1, Len(s))
        stop == IF \E k \in 1..Len(rest) : rest[k] \in LineTerminators
                THEN CHOOSE k \in 1..Len(rest) :
                         /\ rest[k] \in LineTerminators
                         /\ \A j \in 1..(k - 1) : rest[j] \notin LineTerminators
                ELSE Len(rest) + 1
        capture == SubSeq(rest, 1, stop - 1)
    IN  [language |-> SubSeq(s, 1, i - 1),
         title |-> IF capture = <<>> THEN Undefined ELSE JsStr(capture)]

\* ParseLocator with another default language
ParseLocator_DefaultDe(s) ==
    IF IndexOfColon(s) # 0
    THEN SplitAtColon(s)
    ELSE [language |-> <<"d", "e">>, title |-> JsStr(s)]

\* the locator parsing shared by the entry points that take
\* "language:subject": split when there is a colon, default language otherwise
ParseLocator(s) ==
    IF IndexOfColon(s) # 0
    THEN SplitAtColon(s)
    ELSE [language |-> DEFAULT_LANGUAGE, title |-> JsStr(s)]

\* ParseCategoryLocator splitting at a single colon too
ParseCategoryLocator_AnyColon(s) ==
    IF CountColons(s) > 0
    THEN SplitAtColon(s)
    ELSE [language |-> DEFAULT_LANGUAGE, title |-> JsStr(s)]

\* the parsing of WIKICATEGORYMEMBERS and WIKISUBCATEGORIES: the category
\* title itself holds a colon ("Category:X"), so they split only when the
\* argument holds more than one
ParseCategoryLocator(s) ==
    IF CountColons(s) > 1
    THEN SplitAtColon(s)
    ELSE [language |-> DEFAULT_LANGUAGE, title |-> JsStr(s)]

\* title.replace(/\s/g, '_')
ReplaceWhiteSpace(s) ==
    [i \in 1..Len(s) |-> IF s[i] \in WhiteSpace THEN "_" ELSE s[i]]

\* title.replace(/_/g, ' ')
ReplaceUnderscores(s) ==
    [i \in 1..Len(s) |-> IF s[i] = "_" THEN " " ELSE s[i]]

\* encodeURIComponent on one character
EncodeChar(c) ==
    CASE c = ":" -> "%3A"
      [] c = " " -> "%20"
      [] c = "\n" -> "%0A"
      [] c = "," -> "%2C"
      [] c = "|" -> "%7C"
      [] OTHER -> c

\* encodeURIComponent(s)
EncodeURIComponent(s) == [i \in 1..Len(s) |-> EncodeChar(s[i])]

\* encodeURIComponent(title.replace(/\s/g, '_'))
EncodeTitle(s) == EncodeURIComponent(ReplaceWhiteSpace(s))

\* opt_namespaces ? encodeURIComponent(opt_namespaces) : dflt
NamespaceParam(opt_namespaces, dflt) ==
    IF Falsy(opt_namespaces) THEN dflt ELSE EncodeURIComponent(opt_namespaces.s)

(***************************************************************************)
(* Upstream responses.  A fetch either throws, or returns a body that the  *)
(* parser rejects, or returns a parsed document.  A document of a list     *)
(* endpoint either lacks an element on the path to the list or holds the   *)
(* list's entries; an entry is a record of attributes, and an attribute    *)
(* that is absent is Undefined.                                            *)
(***************************************************************************)
FetchError == [status |-> "fetch_error"]
ParseError == [status |-> "parse_error"]
NoPath == [status |-> "ok", path |-> FALSE]
Doc(entries) == [status |-> "ok", path |-> TRUE, entries |-> entries]

\* whether the fetch, the parse and the walk to the list succeed
Readable(resp) == resp.status = "ok" /\ resp.path

\* the sequences over S of length at most n
RECURSIVE SeqsUpTo(_, _)
SeqsUpTo(S, n) ==
    IF n = 0 THEN {<<>>}
    ELSE LET shorter == SeqsUpTo(S, n - 1)
         IN  shorter \cup {Append(q, x) : q \in {p \in shorter : Len(p) = n - 1}, x \in S}

\* the loop "for (i = 0; i < entries.length; i++) results[i] = row(entries[i])"
\* inside try/catch makes rows of the entries before the first one whose
\* conversion throws; bad holds the positions of the entries that throw
EntriesBeforeThrow(entries, bad) ==
    SubSeq(entries, 1, IF bad = {} THEN Len(entries)
                       ELSE (CHOOSE i \in bad : \A j \in bad : i <= j) - 1)


\* the entries of a list of titles: each has its title attribute or lacks it
TitleOf(entry) == entry.title
LacksTitle(entry) == entry.title = Undefined

\* the result array of an entry point that lists titles, as the loop in its
\* try block leaves it: empty when the fetch, the parse or the walk to the
\* list throws, and otherwise the titles before the first entry without one
TitleRows(resp) ==
    IF Readable(resp)
    THEN LET kept == EntriesBeforeThrow(resp.entries,
                         {i \in 1..Len(resp.entries) : LacksTitle(resp.entries[i])})
         IN  [i \in 1..Len(kept) |-> TitleOf(kept[i])]
    ELSE <<>>

(***************************************************************************)
(* WIKISYNONYMS(article, opt_namespaces)                                   *)
(***************************************************************************)
WIKISYNONYMS(article, opt_namespaces, resp) ==
    IF Falsy(article) THEN Outcome(EmptyString, <<>>)
    ELSE LET loc == ParseLocator(article.s)
         IN  IF Falsy(loc.title) THEN Outcome(EmptyString, <<>>)
             ELSE LET url == [api |-> "backlinks",
                              language |-> loc.language,
                              filterredir |-> "redirects",
                              namespace |-> NamespaceParam(opt_namespaces, <<"0">>),
                              title |-> EncodeTitle(loc.title.s)]
                  IN  Outcome(NonEmptyOrEmptyString(TitleRows(resp)), <<url>>)

(***************************************************************************)
(* WIKIARTICLESAROUND(articleOrPoint, radius, opt_includeDistance,         *)
(*                    opt_namespaces)                                      *)
(***************************************************************************)
Digits == {"0", "1", "2", "3", "4", "5", "6", "7", "8", "9"}
Signs == {"-", "+"}

\* s without the sign the pattern's [-+]? may match
StripSign(s) ==
    IF Len(s) > 0 /\ s[1] \in Signs THEN SubSeq(s, 2, Len(s)) ELSE s

\* s without the white space the pattern's \s* matches
RECURSIVE StripWhiteSpace(_)
StripWhiteSpace(s) ==
    IF Len(s) > 0 /\ s[1] \in WhiteSpace
    THEN StripWhiteSpace(SubSeq(s, 2, Len(s)))
    ELSE s

\* the first position of character c in s, 0 when there is none
IndexOf(s, c) ==
    IF \E i \in 1..Len(s) : s[i] = c
    THEN CHOOSE i \in 1..Len(s) : s[i] = c /\ \A j \in 1..(i - 1) : s[j] # c
    ELSE 0

\* Int(\.Frac+)? : the part of s the pattern's Int has to match, which is s
\* up to its first dot
IntegerPart(s) ==
    IF IndexOf(s, ".") = 0 THEN s ELSE SubSeq(s, 1, IndexOf(s, ".") - 1)

\* Int(\.Frac+)? : s has no dot, or one or more characters of Frac after its
\* first dot and nothing else
FractionMatches(s, Frac) ==
    LET dot == IndexOf(s, ".")
    IN  \/ dot = 0
        \/ dot < Len(s) /\ \A k \in (dot + 1)..Len(s) : s[k] \in Frac

\* [1-8]?\d
IsLatInt(s) ==
    \/ Len(s) = 1 /\ s[1] \in Digits
    \/ Len(s) = 2 /\ s[1] \in (Digits \ {"0", "9"}) /\ s[2] \in Digits

\* (1[0-7]\d)|([1-9]?\d)
IsLonInt(s) ==
    \/ Len(s) = 3 /\ s[1] = "1" /\ s[2] \in (Digits \ {"8", "9"}) /\ s[3] \in Digits
    \/ Len(s) = 2 /\ s[1] \in (Digits \ {"0"}) /\ s[2] \in Digits
    \/ Len(s) = 1 /\ s[1] \in Digits

Is90(s) == s = <<"9", "0">>
Is180(s) == s = <<"1", "8", "0">>

\* /^[-+]?([1-8]?\d(\.\d+)?|90(\.0+)?),\s*[-+]?(180(\.0+)?|((1[0-7]\d)|([1-9]?\d))(\.\d+)?)$/.test(rest)
IsPoint(rest) ==
    LET comma == IndexOf(rest, ",")
        lat == StripSign(SubSeq(rest, 1, comma - 1))
        lon == StripSign(StripWhiteSpace(SubSeq(rest, comma + 1, Len(rest))))
    IN  /\ comma # 0
        /\ \/ IsLatInt(IntegerPart(lat)) /\ FractionMatches(lat, Digits)
           \/ Is90(IntegerPart(lat)) /\ FractionMatches(lat, {"0"})
        /\ \/ Is180(IntegerPart(lon)) /\ FractionMatches(lon, {"0"})
           \/ IsLonInt(IntegerPart(lon)) /\ FractionMatches(lon, Digits)

\* ParsePlace taking a point only from a locator without a language
ParsePlace_NoPointAfterLanguage(s) ==
    LET loc == ParseLocator(s)
        point == IndexOfColon(s) = 0 /\ loc.title.t = "string" /\ IsPoint(loc.title.s)
        comma == IndexOf(loc.title.s, ",")
    IN  [language |-> loc.language,
         title |-> IF point THEN Undefined ELSE loc.title,
         latitude |-> IF point THEN JsStr(SubSeq(loc.title.s, 1, comma - 1))
                      ELSE Undefined,
         longitude |-> IF point
                       THEN JsStr(SubSeq(loc.title.s, comma + 1, Len(loc.title.s)))
                       ELSE Undefined]

\* the parsing of WIKIARTICLESAROUND: language and rest as in the other entry
\* points, then the rest is a point when it matches the pattern and a title
\* otherwise.  With nothing after the colon the pattern is tested against
\* undefined, fails, and the title is that undefined rest.
ParsePlace(s) ==
    LET loc == ParseLocator(s)
        point == loc.title.t = "string" /\ IsPoint(loc.title.s)
        comma == IndexOf(loc.title.s, ",")
    IN  [language |-> loc.language,
         title |-> IF point THEN Undefined ELSE loc.title,
         latitude |-> IF point THEN JsStr(SubSeq(loc.title.s, 1, comma - 1))
                      ELSE Undefined,
         longitude |-> IF point
                       THEN JsStr(SubSeq(loc.title.s, comma + 1, Len(loc.title.s)))
                       ELSE Undefined]

LacksPlaceAttribute(includeDistance, entry) ==
    \/ entry.title = Undefined
    \/ entry.lat = Undefined
    \/ entry.lon = Undefined
    \/ includeDistance /\ entry.dist = Undefined

PlaceRow(includeDistance, entry) ==
    IF includeDistance
    THEN JsArr(<<entry.title, entry.lat, entry.lon, entry.dist>>)
    ELSE JsArr(<<entry.title, entry.lat, entry.lon>>)

PlaceRows(includeDistance, resp) ==
    IF Readable(resp)
    THEN LET kept == EntriesBeforeThrow(resp.entries,
                         {i \in 1..Len(resp.entries) :
                             LacksPlaceAttribute(includeDistance, resp.entries[i])})
         IN  [i \in 1..Len(kept) |-> PlaceRow(includeDistance, kept[i])]
    ELSE <<>>

WIKIARTICLESAROUND(articleOrPoint, radius, opt_includeDistance, opt_namespaces, resp) ==
    IF Falsy(articleOrPoint) THEN Outcome(EmptyString, <<>>)
    ELSE LET place == ParsePlace(articleOrPoint.s)
         IN  IF Falsy(place.title) /\ ~(~Falsy(place.latitude) /\ ~Falsy(place.longitude))
             THEN Outcome(Undefined, <<>>)
             ELSE LET url == IF ~Falsy(place.title)
                             THEN [api |-> "geosearch",
                                   language |-> place.language,
                                   radius |-> radius,
                                   gspage |-> EncodeTitle(place.title.s),
                                   namespace |-> NamespaceParam(opt_namespaces, <<"0">>)]
                             ELSE [api |-> "geosearch",
                                   language |-> place.language,
                                   radius |-> radius,
                                   gscoord |-> place.latitude.s \o <<"%7C">> \o place.longitude.s,
                                   namespace |-> NamespaceParam(opt_namespaces, <<"0">>)]
                  IN  Outcome(NonEmptyOrEmptyString(PlaceRows(opt_includeDistance, resp)),
                              <<url>>)

(***************************************************************************)
(* WIKITRANSLATE(article, opt_targetLanguages, opt_skipHeader,             *)
(*               _opt_returnAsObject)                                      *)
(*                                                                         *)
(* The results object is a sequence of key/value pairs in insertion order, *)
(* which is the order "for (var lang in results)" visits keys that are not *)
(* array indices; assigning to a key it holds keeps the key's place.       *)
(***************************************************************************)
JsObj(o) == [t |-> "object", o |-> o]

\* ObjPut adding a pair even when the key is there already
ObjPut_Appends(o, k, v) == Append(o, [k |-> k, v |-> v])

\* results[k] = v
ObjPut(o, k, v) ==
    IF \E i \in 1..Len(o) : o[i].k = k
    THEN [i \in 1..Len(o) |-> IF o[i].k = k THEN [k |-> k, v |-> v] ELSE o[i]]
    ELSE Append(o, [k |-> k, v |-> v])

\* temp = {}; list.forEach(function(x) { temp[x] = true; }); Object.keys(temp):
\* the distinct elements, each at its first occurrence
RECURSIVE Distinct(_)
Distinct(list) ==
    IF list = <<>> THEN <<>>
    ELSE LET front == Distinct(SubSeq(list, 1, Len(list) - 1))
             last == list[Len(list)]
         IN  IF \E i \in 1..Len(front) : front[i] = last
             THEN front
             ELSE Append(front, last)

\* NormalizeList keeping only the first element of a list
NormalizeList_FirstOnly(opt) ==
    IF Falsy(opt) THEN <<>>
    ELSE IF opt.t = "array"
         THEN IF opt.a = <<>> THEN <<>> ELSE <<opt.a[1].s>>
         ELSE <<opt.s>>

\* opt = opt || []; opt = Array.isArray(opt) ? opt : [opt]; then the
\* deduplication above.  The elements are strings; the result lists their text.
NormalizeList(opt) ==
    IF Falsy(opt) THEN <<>>
    ELSE IF opt.t = "array"
         THEN Distinct([i \in 1..Len(opt.a) |-> opt.a[i].s])
         ELSE <<opt.s>>

\* opt_targetLanguages.forEach(function(targetLanguage) {
\*   if (targetLanguage) { results[targetLanguage] = title.replace(/_/g, ' '); } })
RECURSIVE PutTargets(_, _, _)
PutTargets(o, targets, title) ==
    IF targets = <<>> THEN o
    ELSE LET front == PutTargets(o, SubSeq(targets, 1, Len(targets) - 1), title)
             last == targets[Len(targets)]
         IN  IF last = <<>> THEN front ELSE ObjPut(front, last, title)

\* PutLangLinks storing every langlink, asked for or not
RECURSIVE PutLangLinks_Unfiltered(_, _, _, _)
PutLangLinks_Unfiltered(o, entries, n, targets) ==
    IF n = 0 THEN o
    ELSE ObjPut(PutLangLinks_Unfiltered(o, entries, n - 1, targets),
                entries[n].lang.s, entries[n].text)

\* the loop over the first n langlinks: an entry in a language that is not
\* asked for is skipped, any other is stored under its language
RECURSIVE PutLangLinks(_, _, _, _)
PutLangLinks(o, entries, n, targets) ==
    IF n = 0 THEN o
    ELSE LET front == PutLangLinks(o, entries, n - 1, targets)
             e == entries[n]
         IN  IF Len(targets) > 0 /\ ~(\E i \in 1..Len(targets) : targets[i] = e.lang.s)
             THEN front
             ELSE ObjPut(front, e.lang.s, e.text)

\* TranslateResults without the row of the article's own language
TranslateResults_NoOwnLanguageRow(loc, targets, resp) ==
    LET start == PutTargets(<<>>, targets, ReplaceUnderscores(loc.title.s))
        bad == IF Readable(resp)
               THEN {i \in 1..Len(resp.entries) : resp.entries[i].lang = Undefined}
               ELSE {}
    IN  IF ~Readable(resp) THEN start
        ELSE IF bad # {}
             THEN PutLangLinks(start, resp.entries,
                               (CHOOSE i \in bad : \A j \in bad : i <= j) - 1, targets)
             ELSE PutLangLinks(start, resp.entries, Len(resp.entries), targets)

\* the results object as the try block leaves it
TranslateResults(loc, targets, resp) ==
    LET own == ReplaceUnderscores(loc.title.s)
        start == PutTargets(<<>>, targets, own)
        bad == IF Readable(resp)
               THEN {i \in 1..Len(resp.entries) : resp.entries[i].lang = Undefined}
               ELSE {}
    IN  IF ~Readable(resp) THEN start
        ELSE IF bad # {}
             THEN PutLangLinks(start, resp.entries,
                               (CHOOSE i \in bad : \A j \in bad : i <= j) - 1, targets)
             ELSE ObjPut(PutLangLinks(start, resp.entries, Len(resp.entries), targets),
                         loc.language, own)

TranslateRow(skipHeader, pair) ==
    IF skipHeader THEN JsStr(pair.v) ELSE JsArr(<<JsStr(pair.k), JsStr(pair.v)>>)

WIKITRANSLATE(article, opt_targetLanguages, opt_skipHeader, opt_returnAsObject, resp) ==
    IF Falsy(article) THEN Outcome(EmptyString, <<>>)
    ELSE LET targets == NormalizeList(opt_targetLanguages)
             loc == ParseLocator(article.s)
         IN  IF Falsy(loc.title) THEN Outcome(EmptyString, <<>>)
             ELSE LET url == [api |-> "langlinks",
                              language |-> loc.language,
                              title |-> EncodeTitle(loc.title.s)]
                      results == TranslateResults(loc, targets, resp)
                      arrayResults == [i \in 1..Len(results) |->
                                          TranslateRow(opt_skipHeader, results[i])]
                  IN  IF opt_returnAsObject
                      THEN Outcome(JsObj(results), <<url>>)
                      ELSE Outcome(NonEmptyOrEmptyString(arrayResults), <<url>>)

(***************************************************************************)
(* WIKIEXPAND(article, opt_targetLanguages)                                *)
(*                                                                         *)
(* The upstream of a call is the langlinks response and, per language, the *)
(* response of that language's site to the synonyms request.               *)
(***************************************************************************)
SynonymsResponse(up, language) ==
    IF language \in DOMAIN up.synonyms THEN up.synonyms[language] ELSE FetchError

\* [lang].concat([translations[lang]].concat(synonyms)): concat appends the
\* elements of an array and appends any other value, the empty string
\* included, as one element
ExpandRow(pair, synonyms) ==
    JsArr(<<JsStr(pair.k), JsStr(pair.v)>>
          \o (IF synonyms.t = "array" THEN synonyms.a ELSE <<synonyms>>))

\* the call WIKISYNONYMS(lang + ':' + translations[lang]) of the loop
ExpandSynonyms(pair, up) ==
    WIKISYNONYMS(JsStr(pair.k \o <<":">> \o pair.v), Undefined,
                 SynonymsResponse(up, pair.k))

\* ExpandRequests issuing a synonyms request that failed a second time
RECURSIVE ExpandRequests_RetriesFailed(_, _, _)
ExpandRequests_RetriesFailed(translations, n, up) ==
    IF n = 0 THEN <<>>
    ELSE LET reqs == ExpandSynonyms(translations[n], up).reqs
         IN  ExpandRequests_RetriesFailed(translations, n - 1, up)
             \o reqs
             \o (IF Readable(SynonymsResponse(up, translations[n].k)) THEN <<>> ELSE reqs)

RECURSIVE ExpandRequests(_, _, _)
ExpandRequests(translations, n, up) ==
    IF n = 0 THEN <<>>
    ELSE ExpandRequests(translations, n - 1, up)
         \o ExpandSynonyms(translations[n], up).reqs

WIKIEXPAND(article, opt_targetLanguages, up) ==
    IF Falsy(article) THEN Outcome(EmptyString, <<>>)
    ELSE LET loc == ParseLocator(article.s)
         IN  IF Falsy(loc.title) THEN Outcome(EmptyString, <<>>)
             ELSE LET targets == NormalizeList(opt_targetLanguages)
                      translate == WIKITRANSLATE(
                          article,
                          JsArr([i \in 1..Len(targets) |-> JsStr(targets[i])]),
                          FALSE, TRUE, up.langlinks)
                      translations == translate.ret.o
                      results == [i \in 1..Len(translations) |->
                                     ExpandRow(translations[i],
                                               ExpandSynonyms(translations[i], up).ret)]
                  IN  Outcome(JsArr(results),
                              translate.reqs
                              \o ExpandRequests(translations, Len(translations), up))

(***************************************************************************)
(* WIKICOMMONSLINK(fileName)                                               *)
(***************************************************************************)
\* the single element an entry point reads one attribute of
SingleRows(resp, attribute) ==
    IF Readable(resp) /\ Len(resp.entries) > 0 /\ resp.entries[1][attribute] # Undefined
    THEN <<resp.entries[1][attribute]>>
    ELSE <<>>

WIKICOMMONSLINK(fileName, resp) ==
    IF Falsy(fileName) THEN Outcome(EmptyString, <<>>)
    ELSE LET loc == ParseLocator(fileName.s)
         IN  IF Falsy(loc.title) THEN Outcome(EmptyString, <<>>)
             ELSE LET url == [api |-> "imageinfo",
                              language |-> loc.language,
                              title |-> <<"File:">> \o EncodeTitle(loc.title.s)]
                  IN  Outcome(NonEmptyOrEmptyString(SingleRows(resp, "url")), <<url>>)

(***************************************************************************)
(* WIKICATEGORYMEMBERS(category, opt_namespaces)                           *)
(***************************************************************************)
WIKICATEGORYMEMBERS(category, opt_namespaces, resp) ==
    IF Falsy(category) THEN Outcome(EmptyString, <<>>)
    ELSE LET loc == ParseCategoryLocator(category.s)
         IN  IF Falsy(loc.title) THEN Outcome(EmptyString, <<>>)
             ELSE LET url == [api |-> "categorymembers",
                              language |-> loc.language,
                              namespace |-> NamespaceParam(opt_namespaces, <<"0">>),
                              title |-> EncodeTitle(loc.title.s)]
                  IN  Outcome(NonEmptyOrEmptyString(TitleRows(resp)), <<url>>)

(***************************************************************************)
(* WIKISUBCATEGORIES(category, opt_namespaces)                             *)
(***************************************************************************)
WIKISUBCATEGORIES(category, opt_namespaces, resp) ==
    IF Falsy(category) THEN Outcome(EmptyString, <<>>)
    ELSE LET loc == ParseCategoryLocator(category.s)
         IN  IF Falsy(loc.title) THEN Outcome(EmptyString, <<>>)
             ELSE LET url == [api |-> "categorymembers",
                              language |-> loc.language,
                              namespace |-> NamespaceParam(opt_namespaces, <<"1", "4">>),
                              title |-> EncodeTitle(loc.title.s)]
                  IN  Outcome(NonEmptyOrEmptyString(TitleRows(resp)), <<url>>)

(***************************************************************************)
(* WIKICATEGORIES(article)                                                 *)
(***************************************************************************)
WIKICATEGORIES(article, resp) ==
    IF Falsy(article) THEN Outcome(EmptyString, <<>>)
    ELSE LET loc == ParseLocator(article.s)
         IN  IF Falsy(loc.title) THEN Outcome(EmptyString, <<>>)
             ELSE LET url == [api |-> "categories",
                              language |-> loc.language,
                              title |-> EncodeTitle(loc.title.s)]
                  IN  Outcome(NonEmptyOrEmptyString(TitleRows(resp)), <<url>>)

(***************************************************************************)
(* WIKIINBOUNDLINKS(article, opt_namespaces)                               *)
(***************************************************************************)
WIKIINBOUNDLINKS(article, opt_namespaces, resp) ==
    IF Falsy(article) THEN Outcome(EmptyString, <<>>)
    ELSE LET loc == ParseLocator(article.s)
         IN  IF Falsy(loc.title) THEN Outcome(EmptyString, <<>>)
             ELSE LET url == [api |-> "backlinks",
                              language |-> loc.language,
                              namespace |-> NamespaceParam(opt_namespaces, <<"0">>),
                              title |-> EncodeTitle(loc.title.s)]
                  IN  Outcome(NonEmptyOrEmptyString(TitleRows(resp)), <<url>>)

(***************************************************************************)
(* WIKIOUTBOUNDLINKS(article, opt_namespaces)                              *)
(***************************************************************************)
WIKIOUTBOUNDLINKS(article, opt_namespaces, resp) ==
    IF Falsy(article) THEN Outcome(EmptyString, <<>>)
    ELSE LET loc == ParseLocator(article.s)
         IN  IF Falsy(loc.title) THEN Outcome(EmptyString, <<>>)
             ELSE LET url == [api |-> "links",
                              language |-> loc.language,
                              namespace |-> NamespaceParam(opt_namespaces, <<"0">>),
                              title |-> EncodeTitle(loc.title.s)]
                  IN  Outcome(NonEmptyOrEmptyString(TitleRows(resp)), <<url>>)

(***************************************************************************)
(* WIKIMUTUALLINKS(article, opt_namespaces)                                *)
(*                                                                         *)
(* No try block: the two lists are fetched, then inboundLinks.filter is    *)
(* called, which only an array has, and outboundLinks.indexOf, which both  *)
(* an array and a string have.                                             *)
(***************************************************************************)
\* outboundLinks.indexOf(link) > -1: membership for an array, and for the
\* empty string the search of link in it, found only when link is empty too
IndexOfFinds(outboundLinks, link) ==
    IF outboundLinks.t = "array"
    THEN \E k \in 1..Len(outboundLinks.a) : outboundLinks.a[k] = link
    ELSE link = EmptyString

\* WIKIMUTUALLINKS fetching the outbound links first
WIKIMUTUALLINKS_OutboundFirst(article, opt_namespaces, up) ==
    LET inbound == WIKIINBOUNDLINKS(article, opt_namespaces, up.inbound)
        outbound == WIKIOUTBOUNDLINKS(article, opt_namespaces, up.outbound)
        reqs == outbound.reqs \o inbound.reqs
    IN  IF inbound.ret.t # "array"
        THEN Outcome(Exception, reqs)
        ELSE Outcome(JsArr(SelectSeq(inbound.ret.a,
                                     LAMBDA link : IndexOfFinds(outbound.ret, link))),
                     reqs)

WIKIMUTUALLINKS(article, opt_namespaces, up) ==
    LET inbound == WIKIINBOUNDLINKS(article, opt_namespaces, up.inbound)
        outbound == WIKIOUTBOUNDLINKS(article, opt_namespaces, up.outbound)
        inboundLinks == inbound.ret
        outboundLinks == outbound.ret
        reqs == inbound.reqs \o outbound.reqs
    IN  IF inboundLinks.t # "array"
        THEN Outcome(Exception, reqs)
        ELSE Outcome(JsArr(SelectSeq(inboundLinks.a,
                                     LAMBDA link : IndexOfFinds(outboundLinks, link))),
                     reqs)

(***************************************************************************)
(* WIKIGEOCOORDINATES(article)                                             *)
(***************************************************************************)
GeoRows(resp) ==
    IF /\ Readable(resp)
       /\ Len(resp.entries) > 0
       /\ resp.entries[1].lat # Undefined
       /\ resp.entries[1].lon # Undefined
    THEN <<JsArr(<<resp.entries[1].lat, resp.entries[1].lon>>)>>
    ELSE <<>>

WIKIGEOCOORDINATES(article, resp) ==
    IF Falsy(article) THEN Outcome(EmptyString, <<>>)
    ELSE LET loc == ParseLocator(article.s)
         IN  IF Falsy(loc.title) THEN Outcome(EmptyString, <<>>)
             ELSE LET url == [api |-> "coordinates",
                              language |-> loc.language,
                              title |-> EncodeTitle(loc.title.s)]
                  IN  Outcome(NonEmptyOrEmptyString(GeoRows(resp)), <<url>>)

(***************************************************************************)
(* WIKILINKSEARCH(linkPattern, opt_protocol, opt_namespaces)               *)
(***************************************************************************)
LinkRows(resp) ==
    IF Readable(resp)
    THEN LET kept == EntriesBeforeThrow(resp.entries,
                         {i \in 1..Len(resp.entries) :
                             \/ resp.entries[i].title = Undefined
                             \/ resp.entries[i].url = Undefined})
         IN  [i \in 1..Len(kept) |-> JsArr(<<kept[i].title, kept[i].url>>)]
    ELSE <<>>

WIKILINKSEARCH(linkPattern, opt_protocol, opt_namespaces, resp) ==
    IF Falsy(linkPattern) THEN Outcome(EmptyString, <<>>)
    ELSE LET loc == ParseLocator(linkPattern.s)
         IN  IF Falsy(loc.title) THEN Outcome(EmptyString, <<>>)
             ELSE LET url == [api |-> "exturlusage",
                              language |-> loc.language,
                              protocol |-> IF Falsy(opt_protocol)
                                           THEN <<"http">> ELSE opt_protocol.s,
                              namespace |-> NamespaceParam(opt_namespaces, <<"0">>),
                              title |-> EncodeURIComponent(loc.title.s)]
                  IN  Outcome(NonEmptyOrEmptyString(LinkRows(resp)), <<url>>)

(***************************************************************************)
(* WIKIDATAFACTS(article, opt_multiObjectMode, opt_properties)             *)
(*                                                                         *)
(* The claims of the entity are a sequence of properties in the order of   *)
(* the response, each with its statements.  A statement's main snak is     *)
(* null, or absent (Undefined), or a record of a datatype and a datavalue. *)
(***************************************************************************)
\* /^Q\d+$/.test(s)
IsQid(s) ==
    /\ Len(s) > 1
    /\ s[1] = "Q"
    /\ \A k \in 2..Len(s) : s[k] \in Digits

\* the statements simpifyStatement cannot read: statement.mainsnak is
\* undefined, so reading its datatype throws
StatementThrows(statement) == statement.mainsnak = Undefined

simpifyStatement(statement) ==
    LET mainsnak == statement.mainsnak
    IN  IF mainsnak = Null THEN Null
        ELSE IF mainsnak.datavalue \in {Null, Undefined} THEN Null
        ELSE CASE mainsnak.datatype \in {"string", "commonsMedia", "url", "math",
                                         "external-id"}
                      -> mainsnak.datavalue.value
               [] mainsnak.datatype = "monolingualtext" -> mainsnak.datavalue.value.text
               [] mainsnak.datatype = "wikibase-item"
                      -> JsStr(<<"Q">> \o mainsnak.datavalue.value.numericId)
               [] mainsnak.datatype = "time" -> mainsnak.datavalue.value.time
               [] mainsnak.datatype = "quantity" -> mainsnak.datavalue.value.amount
               [] OTHER -> Null

\* simpifyClaim: the simplified statements that are not null, in order
simpifyClaim(claim) ==
    SelectSeq([i \in 1..Len(claim) |-> simpifyStatement(claim[i])],
              LAMBDA v : v # Null)

\* simplifyClaims: every property with its simplified claim
simplifyClaims(claims) ==
    [i \in 1..Len(claims) |->
        [k |-> claims[i].property, v |-> simpifyClaim(claims[i].statements)]]

\* the qids array: simpifyStatement pushes the id of every item it meets
RECURSIVE Flatten(_)
Flatten(lists) ==
    IF lists = <<>> THEN <<>>
    ELSE Flatten(SubSeq(lists, 1, Len(lists) - 1)) \o lists[Len(lists)]

ItemIds(claim) ==
    LET items == SelectSeq(claim,
                     LAMBDA st : /\ st.mainsnak # Null
                                 /\ st.mainsnak.datavalue \notin {Null, Undefined}
                                 /\ st.mainsnak.datatype = "wikibase-item")
    IN  [i \in 1..Len(items) |-> simpifyStatement(items[i]).s]

CollectQids(claims) ==
    Flatten([i \in 1..Len(claims) |-> ItemIds(claims[i].statements)])

\* var size = 50
ChunkSize == 50

\* the response to the request for the c-th chunk of ids
LabelsResponse(responses, c) ==
    IF c <= Len(responses) THEN responses[c] ELSE FetchError

\* LabelChunks losing the labels gathered so far when a request fails
RECURSIVE LabelChunks_ForgetsOnFailure(_, _, _, _)
LabelChunks_ForgetsOnFailure(ids, c, responses, labels) ==
    LET first == (c - 1) * ChunkSize + 1
        last == IF c * ChunkSize < Len(ids) THEN c * ChunkSize ELSE Len(ids)
        chunk == SubSeq(ids, first, last)
        url == [api |-> "wbgetentities", props |-> "labels", ids |-> chunk]
        resp == LabelsResponse(responses, c)
        found == [id \in {chunk[k] : k \in 1..Len(chunk)} |->
                     IF id \in DOMAIN resp.labels /\ resp.labels[id] # <<>>
                     THEN JsStr(resp.labels[id])
                     ELSE False]
        merged == [id \in DOMAIN labels \cup DOMAIN found |->
                      IF id \in DOMAIN found THEN found[id] ELSE labels[id]]
    IN  IF first > Len(ids) THEN [labels |-> labels, reqs |-> <<>>]
        ELSE IF ~Readable(resp) THEN [labels |-> <<>>, reqs |-> <<url>>]
        ELSE LET later == LabelChunks_ForgetsOnFailure(ids, c + 1, responses, merged)
             IN  [labels |-> later.labels, reqs |-> <<url>> \o later.reqs]

\* getPropertyAndEntityLabels from the c-th chunk on: a chunk whose request
\* fails ends the loop with the labels gathered so far
RECURSIVE LabelChunks(_, _, _, _)
LabelChunks(ids, c, responses, labels) ==
    LET first == (c - 1) * ChunkSize + 1
        last == IF c * ChunkSize < Len(ids) THEN c * ChunkSize ELSE Len(ids)
        chunk == SubSeq(ids, first, last)
        url == [api |-> "wbgetentities", props |-> "labels", ids |-> chunk]
        resp == LabelsResponse(responses, c)
        found == [id \in {chunk[k] : k \in 1..Len(chunk)} |->
                     IF id \in DOMAIN resp.labels /\ resp.labels[id] # <<>>
                     THEN JsStr(resp.labels[id])
                     ELSE False]
        merged == [id \in DOMAIN labels \cup DOMAIN found |->
                      IF id \in DOMAIN found THEN found[id] ELSE labels[id]]
    IN  IF first > Len(ids) THEN [labels |-> labels, reqs |-> <<>>]
        ELSE IF ~Readable(resp) THEN [labels |-> labels, reqs |-> <<url>>]
        ELSE LET later == LabelChunks(ids, c + 1, responses, merged)
             IN  [labels |-> later.labels, reqs |-> <<url>> \o later.reqs]

\* getPropertyAndEntityLabels asking for every chunk twice
getPropertyAndEntityLabels_AsksTwice(propertiesAndEntities, responses) ==
    LET once == LabelChunks(propertiesAndEntities, 1, responses, <<>>)
    IN  [labels |-> once.labels, reqs |-> once.reqs \o once.reqs]

getPropertyAndEntityLabels(propertiesAndEntities, responses) ==
    LabelChunks(propertiesAndEntities, 1, responses, <<>>)

\* labels[id]
LabelOf(labels, id) == IF id \in DOMAIN labels THEN labels[id] ELSE Undefined

\* /^Q\d+$/.test(v) ? labels[v] : v
FactValue(labels, v) ==
    IF v.t = "string" /\ IsQid(v.s) THEN LabelOf(labels, v.s) ELSE v

ToLowerChar(c) ==
    CASE c = "A" -> "a" [] c = "F" -> "f" [] c = "I" -> "i" [] c = "L" -> "l"
      [] c = "R" -> "r" [] c = "S" -> "s" [] c = "T" -> "t" [] OTHER -> c

\* /^word$/i.test(mode)
MatchesIgnoringCase(mode, word) ==
    /\ mode.t = "string"
    /\ [i \in 1..Len(mode.s) |-> ToLowerChar(mode.s[i])] = word

IsFirst(mode) == MatchesIgnoringCase(mode, <<"f", "i", "r", "s", "t">>)
IsAll(mode) == MatchesIgnoringCase(mode, <<"a", "l", "l">>)

\* FactRows returning every value of a property whatever the mode
FactRows_AllWhateverTheMode(labels, pair, mode) ==
    LET label == LabelOf(labels, pair.k)
        kept == SelectSeq(pair.v,
                          LAMBDA v : ~Falsy(label) /\ ~Falsy(FactValue(labels, v)))
    IN  [i \in 1..Len(kept) |-> JsArr(<<label, FactValue(labels, kept[i])>>)]

\* the rows one property contributes
FactRows(labels, pair, mode) ==
    LET label == LabelOf(labels, pair.k)
        claims == pair.v
        row(v) == JsArr(<<label, FactValue(labels, v)>>)
        kept == SelectSeq(claims, LAMBDA v : ~Falsy(label) /\ ~Falsy(FactValue(labels, v)))
        firstOnly == IF ~Falsy(label) /\ ~Falsy(FactValue(labels, claims[1]))
                     THEN <<claims[1]>> ELSE <<>>
        chosen == IF Len(claims) = 1 THEN kept
                  ELSE IF Len(claims) > 1 /\ IsFirst(mode) THEN firstOnly
                  ELSE IF Len(claims) > 1 /\ IsAll(mode) THEN kept
                  ELSE <<>>
    IN  [i \in 1..Len(chosen) |-> row(chosen[i])]

WIKIDATAFACTS(article, opt_multiObjectMode, opt_properties, up) ==
    IF Falsy(article) THEN Outcome(EmptyString, <<>>)
    ELSE LET wanted == NormalizeList(opt_properties)
             loc == ParseLocator(article.s)
         IN  IF Falsy(loc.title) THEN Outcome(EmptyString, <<>>)
             ELSE LET url == IF IsQid(loc.title.s)
                             THEN [api |-> "wbgetentities", props |-> "claims",
                                   ids |-> loc.title.s]
                             ELSE [api |-> "wbgetentities", props |-> "claims",
                                   language |-> loc.language,
                                   title |-> EncodeTitle(loc.title.s)]
                      resp == up.claims
                      throws == \/ ~Readable(resp)
                                \/ \E i \in 1..Len(resp.entries) :
                                       \E k \in 1..Len(resp.entries[i].statements) :
                                           StatementThrows(resp.entries[i].statements[k])
                      simplifiedClaims == simplifyClaims(resp.entries)
                      all == [i \in 1..Len(simplifiedClaims) |-> simplifiedClaims[i].k]
                      properties ==
                          IF Len(wanted) > 0
                          THEN SelectSeq(all, LAMBDA property :
                                   \E k \in 1..Len(wanted) : wanted[k] = property)
                          ELSE all
                      got == getPropertyAndEntityLabels(
                                 properties \o CollectQids(resp.entries), up.labels)
                      results == Flatten([i \in 1..Len(simplifiedClaims) |->
                                     FactRows(got.labels, simplifiedClaims[i],
                                              opt_multiObjectMode)])
                  IN  IF throws THEN Outcome(EmptyString, <<url>>)
                      ELSE Outcome(NonEmptyOrEmptyString(results), <<url>> \o got.reqs)

(***************************************************************************)
(* Dates.  The metrics endpoints stamp an item "YYYYMMDDHH" (unique        *)
(* devices: "YYYYMMDD") and the revisions endpoint "YYYY-MM-DDTHH:MM:SSZ". *)
(* A stamp of the expected form is kept as the numbers its digit groups    *)
(* spell, which is what the replace, the split and the parseInt calls make *)
(* of it; any other text is a plain string.                                *)
(***************************************************************************)
Stamp(parts) == [t |-> "string", parts |-> parts]
IsStamp(v) == v.t = "string" /\ "parts" \in DOMAIN v

IsLeapYear(y) == (y % 4 = 0 /\ y % 100 # 0) \/ y % 400 = 0

DaysInMonth(y, m) ==
    IF m = 2 THEN (IF IsLeapYear(y) THEN 29 ELSE 28)
    ELSE IF m \in {4, 6, 9, 11} THEN 30 ELSE 31

RECURSIVE DaysBeforeMonth(_, _)
DaysBeforeMonth(y, m) ==
    IF m <= 1 THEN 0 ELSE DaysBeforeMonth(y, m - 1) + DaysInMonth(y, m - 1)

\* the days from 1 January 1970 to 1 January of year y
RECURSIVE DaysBeforeYear(_)
DaysBeforeYear(y) ==
    IF y <= 1970 THEN 0
    ELSE DaysBeforeYear(y - 1) + (IF IsLeapYear(y - 1) THEN 366 ELSE 365)

\* Date.UTC(year, month - 1, day, hour, minute, second), in seconds
DateUTC(y, m, d, h, mi, s) ==
    (((DaysBeforeYear(y) + DaysBeforeMonth(y, m) + (d - 1)) * 24 + h) * 60 + mi) * 60 + s

\* new Date(Date.UTC(...)) of a stamp's parts; a text that the pattern does
\* not match leaves parts undefined, and the date is invalid
ParseTimestamp(v) ==
    IF IsStamp(v)
    THEN LET q == v.parts
         IN  JsDate(DateUTC(q[1], q[2], q[3],
                            IF Len(q) > 3 THEN q[4] ELSE 0,
                            IF Len(q) > 4 THEN q[5] ELSE 0,
                            IF Len(q) > 5 THEN q[6] ELSE 0))
    ELSE InvalidDate

\* results.reverse()
Reverse(list) == [i \in 1..Len(list) |-> list[Len(list) + 1 - i]]

\* the date a range starts or ends at, as it goes into the request:
\* opt = opt || new Date(Date.now() - daysAgo days); a Date object is put in
\* the endpoint's format with getIsoDate, a string passes as it is
DateParam(opt, now, daysAgo, format) ==
    IF Falsy(opt) THEN [day |-> now - daysAgo, format |-> format]
    ELSE IF opt.t = "date" THEN [day |-> opt.n, format |-> format]
    ELSE [text |-> opt.s]

\* opt ? opt : dflt
OrDefault(opt, dflt) == IF Falsy(opt) THEN dflt ELSE opt.s

JsNaN == [t |-> "number", nan |-> TRUE]

\* SumViews keeping the views of the last item only
SumViews_LastOnly(items) ==
    IF items = <<>> THEN JsNum(0) ELSE items[Len(items)].views

\* sum += item.views over the items: a number, or NaN once an item has none
RECURSIVE SumViews(_)
SumViews(items) ==
    IF items = <<>> THEN JsNum(0)
    ELSE LET front == SumViews(SubSeq(items, 1, Len(items) - 1))
             last == items[Len(items)].views
         IN  IF front = JsNaN \/ last.t # "number" THEN JsNaN
             ELSE JsNum(front.n + last.n)

\* the rows of items.forEach(...) inside try/catch: [date, count] of the
\* items before the first one without a timestamp
ItemRows(resp, count) ==
    IF Readable(resp)
    THEN LET kept == EntriesBeforeThrow(resp.entries,
                         {i \in 1..Len(resp.entries) :
                             resp.entries[i].timestamp = Undefined})
         IN  [i \in 1..Len(kept) |->
                 JsArr(<<ParseTimestamp(kept[i].timestamp), kept[i][count]>>)]
    ELSE <<>>

\* what WIKIPAGEVIEWS and WIKIPAGEVIEWSPERARTICLE return from the response
ViewsResult(resp, opt_sumOnly) ==
    IF opt_sumOnly
    THEN JsArr(<<IF Readable(resp) THEN SumViews(resp.entries) ELSE JsNum(0)>>)
    ELSE NonEmptyOrEmptyString(Reverse(ItemRows(resp, "views")))

(***************************************************************************)
(* WIKIPAGEVIEWS(article, opt_start, opt_end, opt_sumOnly)                 *)
(***************************************************************************)
WIKIPAGEVIEWS(article, opt_start, opt_end, opt_sumOnly, now, resp) ==
    IF Falsy(article) THEN Outcome(EmptyString, <<>>)
    ELSE LET loc == ParseLocator(article.s)
         IN  IF Falsy(loc.title) THEN Outcome(EmptyString, <<>>)
             ELSE LET url == [api |-> "pageviews/per-article",
                              project |-> loc.language \o <<".wikipedia">>,
                              language |-> loc.language,
                              access |-> <<"all-access">>,
                              agent |-> <<"user">>,
                              title |-> EncodeTitle(loc.title.s),
                              granularity |-> <<"daily">>,
                              start |-> DateParam(opt_start, now, 30, "YYYYMMDD"),
                              end |-> DateParam(opt_end, now, 1, "YYYYMMDD")]
                  IN  Outcome(ViewsResult(resp, opt_sumOnly), <<url>>)

(***************************************************************************)
(* WIKIPAGEVIEWSPERARTICLE(project, article, opt_access, opt_agent,        *)
(*                         opt_granularity, opt_start, opt_end,            *)
(*                         opt_sumOnly)                                    *)
(***************************************************************************)
WIKIPAGEVIEWSPERARTICLE(project, article, opt_access, opt_agent, opt_granularity, opt_start, opt_end, opt_sumOnly, now, resp) ==
    IF Falsy(project) THEN Outcome(EmptyString, <<>>)
    ELSE IF Falsy(article) THEN Outcome(EmptyString, <<>>)
    ELSE LET url == [api |-> "pageviews/per-article",
                     project |-> project.s,
                     access |-> OrDefault(opt_access, <<"all-access">>),
                     agent |-> OrDefault(opt_agent, <<"all-agents">>),
                     title |-> EncodeTitle(article.s),
                     granularity |-> OrDefault(opt_granularity, <<"daily">>),
                     start |-> DateParam(opt_start, now, 30, "YYYYMMDD"),
                     end |-> DateParam(opt_end, now, 1, "YYYYMMDD")]
         IN  Outcome(ViewsResult(resp, opt_sumOnly), <<url>>)

(***************************************************************************)
(* WIKIPAGEVIEWSAGGREGATE(project, opt_access, opt_agent, opt_granularity, *)
(*                        opt_start, opt_end)                              *)
(***************************************************************************)
WIKIPAGEVIEWSAGGREGATE(project, opt_access, opt_agent, opt_granularity, opt_start, opt_end, now, resp) ==
    IF Falsy(project) THEN Outcome(EmptyString, <<>>)
    ELSE LET url == [api |-> "pageviews/aggregate",
                     project |-> project.s,
                     access |-> OrDefault(opt_access, <<"all-access">>),
                     agent |-> OrDefault(opt_agent, <<"all-agents">>),
                     granularity |-> OrDefault(opt_granularity, <<"daily">>),
                     start |-> DateParam(opt_start, now, 30, "YYYYMMDD00"),
                     end |-> DateParam(opt_end, now, 1, "YYYYMMDD00")]
         IN  Outcome(NonEmptyOrEmptyString(Reverse(ItemRows(resp, "views"))), <<url>>)

(***************************************************************************)
(* WIKIPAGEVIEWSTOP(project, opt_access, opt_date)                         *)
(***************************************************************************)
TopRows(resp) ==
    IF Readable(resp)
    THEN LET kept == EntriesBeforeThrow(resp.entries,
                         {i \in 1..Len(resp.entries) :
                             resp.entries[i].article = Undefined})
         IN  [i \in 1..Len(kept) |->
                 JsArr(<<JsStr(ReplaceUnderscores(kept[i].article.s)), kept[i].views>>)]
    ELSE <<>>

WIKIPAGEVIEWSTOP(project, opt_access, opt_date, now, resp) ==
    IF Falsy(project) THEN Outcome(EmptyString, <<>>)
    ELSE LET url == [api |-> "pageviews/top",
                     project |-> project.s,
                     access |-> OrDefault(opt_access, <<"all-access">>),
                     date |-> DateParam(opt_date, now, 1, "YYYY/MM/DD")]
         IN  Outcome(NonEmptyOrEmptyString(TopRows(resp)), <<url>>)

(***************************************************************************)
(* WIKIUNIQUEDEVICES(project, opt_accessSite, opt_granularity, opt_start,  *)
(*                   opt_end)                                              *)
(*                                                                         *)
(* The rows are returned in the order of the response: this function does  *)
(* not call results.reverse().                                             *)
(***************************************************************************)
WIKIUNIQUEDEVICES(project, opt_accessSite, opt_granularity, opt_start, opt_end, now, resp) ==
    IF Falsy(project) THEN Outcome(EmptyString, <<>>)
    ELSE LET url == [api |-> "unique-devices",
                     project |-> project.s,
                     access |-> OrDefault(opt_accessSite, <<"all-sites">>),
                     granularity |-> OrDefault(opt_granularity, <<"daily">>),
                     start |-> DateParam(opt_start, now, 30, "YYYYMMDD"),
                     end |-> DateParam(opt_end, now, 1, "YYYYMMDD")]
         IN  Outcome(NonEmptyOrEmptyString(ItemRows(resp, "devices")), <<url>>)

(***************************************************************************)
(* WIKIPAGEEDITS(article, opt_start, opt_end)                              *)
(***************************************************************************)
\* EditRows comparing each revision with the one before it in the list
EditRows_DeltaToNewer(resp) ==
    IF Readable(resp)
    THEN LET revs == resp.entries
             n == IF Len(revs) > 0 THEN Len(revs) - 1 ELSE 0
             bad == {i \in 1..n : \/ revs[i].timestamp = Undefined
                                  \/ revs[i].size = Undefined
                                  \/ revs[i + 1].size = Undefined}
             stop == IF bad = {} THEN n
                     ELSE (CHOOSE i \in bad : \A j \in bad : i <= j) - 1
         IN  [i \in 1..stop |->
                 JsArr(<<ParseTimestamp(revs[i + 1].timestamp),
                         JsNum(revs[i].size.n - revs[i + 1].size.n)>>)]
    ELSE <<>>

\* the loop over all revisions but the last, inside try/catch: a revision
\* without a timestamp, or a size missing on it or on the next one, throws
EditRows(resp) ==
    IF Readable(resp)
    THEN LET revs == resp.entries
             n == IF Len(revs) > 0 THEN Len(revs) - 1 ELSE 0
             bad == {i \in 1..n : \/ revs[i].timestamp = Undefined
                                  \/ revs[i].size = Undefined
                                  \/ revs[i + 1].size = Undefined}
             stop == IF bad = {} THEN n
                     ELSE (CHOOSE i \in bad : \A j \in bad : i <= j) - 1
         IN  [i \in 1..stop |->
                 JsArr(<<ParseTimestamp(revs[i].timestamp),
                         JsNum(revs[i].size.n - revs[i + 1].size.n)>>)]
    ELSE <<>>

\* WIKIPAGEEDITS passing the start date as rvstart and the end date as rvend
WIKIPAGEEDITS_DatesNotSwapped(article, opt_start, opt_end, now, resp) ==
    IF Falsy(article) THEN Outcome(EmptyString, <<>>)
    ELSE LET loc == ParseLocator(article.s)
         IN  IF Falsy(loc.title) THEN Outcome(EmptyString, <<>>)
             ELSE LET url == [api |-> "revisions",
                              language |-> loc.language,
                              rvstart |-> DateParam(opt_start, now, 30, "YYYY-MM-DDT00:00:00"),
                              rvend |-> DateParam(opt_end, now, 0, "YYYY-MM-DDT23:59:59"),
                              title |-> EncodeTitle(loc.title.s)]
                  IN  Outcome(NonEmptyOrEmptyString(EditRows(resp)), <<url>>)

WIKIPAGEEDITS(article, opt_start, opt_end, now, resp) ==
    IF Falsy(article) THEN Outcome(EmptyString, <<>>)
    ELSE LET loc == ParseLocator(article.s)
         IN  IF Falsy(loc.title) THEN Outcome(EmptyString, <<>>)
             ELSE LET url == [api |-> "revisions",
                              language |-> loc.language,
                              rvstart |-> DateParam(opt_end, now, 0, "YYYY-MM-DDT23:59:59"),
                              rvend |-> DateParam(opt_start, now, 30, "YYYY-MM-DDT00:00:00"),
                              title |-> EncodeTitle(loc.title.s)]
                  IN  Outcome(NonEmptyOrEmptyString(EditRows(resp)), <<url>>)

(***************************************************************************)
(* WIKISEARCH(query, opt_didYouMean, opt_namespaces)                       *)
(*                                                                         *)
(* forEach stores result.title, whatever it is, at the index of the        *)
(* result; reading the title of a result never throws.                     *)
(***************************************************************************)
SearchRow(resp, title, opt_didYouMean, i) ==
    LET found == resp.entries[i].title
    IN  IF opt_didYouMean
        THEN IF i = 1
             THEN JsArr(<<found,
                          IF resp.searchinfo # Undefined
                          THEN resp.searchinfo.suggestion
                          ELSE JsStr(title)>>)
             ELSE JsArr(<<found, EmptyString>>)
        ELSE found

SearchRows(resp, title, opt_didYouMean) ==
    IF Readable(resp)
    THEN [i \in 1..Len(resp.entries) |-> SearchRow(resp, title, opt_didYouMean, i)]
    ELSE <<>>

WIKISEARCH(query, opt_didYouMean, opt_namespaces, resp) ==
    IF Falsy(query) THEN Outcome(EmptyString, <<>>)
    ELSE LET loc == ParseLocator(query.s)
         IN  IF Falsy(loc.title) THEN Outcome(EmptyString, <<>>)
             ELSE LET url == [api |-> "search",
                              language |-> loc.language,
                              title |-> EncodeURIComponent(loc.title.s),
                              namespace |-> NamespaceParam(opt_namespaces, <<"0">>)]
                  IN  Outcome(NonEmptyOrEmptyString(
                                  SearchRows(resp, loc.title.s, opt_didYouMean)),
                              <<url>>)

(***************************************************************************)
(* WIKIDATAQID(article)                                                    *)
(***************************************************************************)
WIKIDATAQID(article, resp) ==
    IF Falsy(article) THEN Outcome(EmptyString, <<>>)
    ELSE LET loc == ParseLocator(article.s)
         IN  IF Falsy(loc.title) THEN Outcome(EmptyString, <<>>)
             ELSE LET url == [api |-> "pageprops",
                              language |-> loc.language,
                              title |-> EncodeURIComponent(loc.title.s)]
                  IN  Outcome(NonEmptyOrEmptyString(SingleRows(resp, "wikibase_item")),
                              <<url>>)

(***************************************************************************)
(* WIKIDATALABELS(qid, opt_targetLanguages) and                            *)
(* WIKIDATADESCRIPTIONS(qid, opt_targetLanguages)                          *)
(***************************************************************************)
Letters == <<"a", "b", "c", "d", "e", "f", "g", "h", "i", "j", "k", "l", "m",
             "n", "o", "p", "q", "r", "s", "t", "u", "v", "w", "x", "y", "z">>

CharRank(c) ==
    IF \E k \in 1..Len(Letters) : Letters[k] = c
    THEN CHOOSE k \in 1..Len(Letters) : Letters[k] = c
    ELSE 0

\* a < b in the order Array.prototype.sort puts strings in
RECURSIVE StringLess(_, _)
StringLess(a, b) ==
    IF b = <<>> THEN FALSE
    ELSE IF a = <<>> THEN TRUE
    ELSE IF a[1] # b[1] THEN CharRank(a[1]) < CharRank(b[1])
    ELSE StringLess(Tail(a), Tail(b))

\* the entries (one per language, as the keys of an object are) in the order
\* of Object.keys(labels).sort()
SortByLanguage(entries) ==
    [i \in 1..Len(entries) |->
        entries[CHOOSE k \in 1..Len(entries) :
                    Cardinality({j \in 1..Len(entries) :
                        StringLess(entries[j].language, entries[k].language)}) = i - 1]]

\* opt = opt || []; opt = Array.isArray(opt) ? opt : [opt]; none means the
\* default language and the single word "all" means every language
LabelLanguages(opt_targetLanguages) ==
    LET given == IF Falsy(opt_targetLanguages) THEN <<>>
                 ELSE IF opt_targetLanguages.t = "array"
                      THEN [i \in 1..Len(opt_targetLanguages.a) |->
                               opt_targetLanguages.a[i].s]
                      ELSE <<opt_targetLanguages.s>>
    IN  IF Len(given) = 0 THEN <<DEFAULT_LANGUAGE>>
        ELSE IF given = <<(<<"a", "l", "l">>)>> THEN <<>>
        ELSE given

EntityRows(resp) ==
    IF Readable(resp)
    THEN LET sorted == SortByLanguage(resp.entries)
         IN  [i \in 1..Len(sorted) |->
                 JsArr(<<JsStr(sorted[i].language), sorted[i].value>>)]
    ELSE <<>>

WIKIDATALABELS(qid, opt_targetLanguages, resp) ==
    IF Falsy(qid) THEN Outcome(EmptyString, <<>>)
    ELSE LET url == [api |-> "wbgetentities", props |-> "labels", ids |-> qid.s,
                     languages |-> LabelLanguages(opt_targetLanguages)]
         IN  Outcome(NonEmptyOrEmptyString(EntityRows(resp)), <<url>>)

WIKIDATADESCRIPTIONS(qid, opt_targetLanguages, resp) ==
    IF Falsy(qid) THEN Outcome(EmptyString, <<>>)
    ELSE LET url == [api |-> "wbgetentities", props |-> "descriptions", ids |-> qid.s,
                     languages |-> LabelLanguages(opt_targetLanguages)]
         IN  Outcome(NonEmptyOrEmptyString(EntityRows(resp)), <<url>>)

(***************************************************************************)
(* WIKIQUARRY(queryId)                                                     *)
(*                                                                         *)
(* results[0] = json.headers; results = results.concat(json.rows): the     *)
(* headers are stored whatever they are, and concat appends the elements   *)
(* of an array and any other value, undefined included, as one element.    *)
(***************************************************************************)
QuarryRows(resp) ==
    IF Readable(resp)
    THEN <<resp.headers>> \o (IF resp.rows.t = "array" THEN resp.rows.a ELSE <<resp.rows>>)
    ELSE <<>>

WIKIQUARRY(queryId, resp) ==
    IF Falsy(queryId) THEN Outcome(EmptyString, <<>>)
    ELSE LET url == [api |-> "quarry", query |-> queryId]
         IN  Outcome(NonEmptyOrEmptyString(QuarryRows(resp)), <<url>>)

(***************************************************************************)
(* GOOGLESUGGEST(query)                                                    *)
(***************************************************************************)
SuggestRows(resp) ==
    IF Readable(resp)
    THEN LET kept == EntriesBeforeThrow(resp.entries,
                         {i \in 1..Len(resp.entries) : resp.entries[i].data = Undefined})
         IN  [i \in 1..Len(kept) |-> kept[i].data]
    ELSE <<>>

GOOGLESUGGEST(query, resp) ==
    IF Falsy(query) THEN Outcome(EmptyString, <<>>)
    ELSE LET loc == ParseLocator(query.s)
         IN  IF Falsy(loc.title) THEN Outcome(EmptyString, <<>>)
             ELSE LET url == [api |-> "suggest",
                              language |-> loc.language,
                              title |-> EncodeURIComponent(loc.title.s)]
                  IN  Outcome(NonEmptyOrEmptyString(SuggestRows(resp)), <<url>>)

(***************************************************************************)
(* The arguments the calls are made with.                                  *)
(***************************************************************************)
\* the locators of the calls whose upstream responses vary: missing, empty,
\* a bare title, language and title, a language with nothing after the
\* colon, two colons, a namespace-prefixed title, a title with white space
\* and an underscore, a Wikidata id, a point
Locators ==
    {Undefined, EmptyString,
     JsStr(<<"B">>),
     JsStr(<<"e", "n", ":", "B">>),
     JsStr(<<"d", "e", ":", "B">>),
     JsStr(<<"d", "e", ":">>),
     JsStr(<<"d", "e", ":", "C", ":", "B">>),
     JsStr(<<"C", ":", "B">>),
     JsStr(<<"B", " ", "_">>),
     JsStr(<<"Q", "1">>),
     JsStr(<<"1", ",", "2">>)}

\* fewer of them, for the calls with many upstream responses
FewLocators ==
    {Undefined,
     JsStr(<<"B">>),
     JsStr(<<"d", "e", ":", "B", "_", "b">>),
     JsStr(<<"d", "e", ":">>)}

\* every locator of at most MaxLocatorLen characters over an alphabet with the
\* colon, a line terminator, a letter, a digit and the comma, two Wikidata
\* ids, and a point with a language
LocatorAlphabet == {":", "\n", "a", "1", ","}

AllLocators ==
    {JsStr(s) : s \in SeqsUpTo(LocatorAlphabet, MaxLocatorLen)}
    \cup {JsStr(<<"Q", "1">>), JsStr(<<"e", "n", ":", "Q", "1">>),
          JsStr(<<"d", "e", ":", "1", ",", "1">>)}

Namespaces == {Undefined, JsStr(<<"0", "|", "1">>)}
Flags == {FALSE, TRUE}
Radii == {1000}

\* opt_targetLanguages: none, one language, a list, a list with a
\* duplicate, a list with an empty cell
En == <<"e", "n">>
De == <<"d", "e">>
Fr == <<"f", "r">>
TargetLanguages ==
    {Undefined,
     JsStr(De),
     JsArr(<<JsStr(De), JsStr(Fr)>>),
     JsArr(<<JsStr(De), JsStr(De)>>),
     JsArr(<<EmptyString, JsStr(Fr)>>)}

\* the optional strings of the metrics functions: all omitted, or all given
Options ==
    {[access |-> Undefined, agent |-> Undefined, granularity |-> Undefined],
     [access |-> JsStr(<<"desktop">>), agent |-> JsStr(<<"user">>),
      granularity |-> JsStr(<<"monthly">>)]}

\* the date range: each end of it omitted, given as text, or given as a Date
\* object (a day number), in every combination
DateRanges ==
    [start : {Undefined, JsStr(<<"20160101">>), JsDate(16800)},
     end : {Undefined, JsStr(<<"20160131">>), JsDate(16830)}]

\* Date.now(), as a day number
Clocks == {17000, 17001}

Projects == {Undefined, JsStr(<<"en.wikipedia">>)}
Articles == {Undefined, JsStr(<<"B", " ", "b">>)}
Qids == {Undefined, JsStr(<<"Q", "1">>)}
FactLocators == {JsStr(<<"B">>), JsStr(<<"d", "e", ":", "B">>), JsStr(<<"Q", "1">>)}
LabelTargets ==
    {Undefined, JsStr(De), JsArr(<<JsStr(De), JsStr(Fr)>>), JsStr(<<"a", "l", "l">>)}
QueryIds == {Undefined, JsNum(0), JsNum(1226)}
Protocols == {Undefined, JsStr(<<"https">>)}
Modes == {Undefined, JsStr(<<"f", "i", "r", "s", "t">>), JsStr(<<"A", "l", "l">>)}
P1 == <<"P", "1">>
P2 == <<"P", "2">>
Q1 == <<"Q", "1">>
Q2 == <<"Q", "2">>
P51 == <<"P", "51">>
\* the second argument GOOGLESUGGEST is documented with
SuggestLanguages == {Undefined, JsStr(De)}
PropertyFilters ==
    {Undefined, JsStr(P1), JsArr(<<JsStr(P2), JsStr(P1), JsStr(P2)>>),
     JsArr(<<JsStr(P51), JsStr(P1)>>)}

(***************************************************************************)
(* The upstream responses the calls are made against.                      *)
(***************************************************************************)
Failures == {FetchError, ParseError, NoPath}

\* every response of a list endpoint whose entries are of the given kinds
Responses(kinds) == Failures \cup {Doc(e) : e \in SeqsUpTo(kinds, MaxEntries)}

X == JsStr(<<"X">>)
Y == JsStr(<<"Y">>)

TitleResponses == Responses({[title |-> X], [title |-> Y], [title |-> Undefined]})

PlaceResponses ==
    Responses({[title |-> X, lat |-> Y, lon |-> Y, dist |-> Y],
               [title |-> Undefined, lat |-> Y, lon |-> Y, dist |-> Y],
               [title |-> X, lat |-> Undefined, lon |-> Y, dist |-> Y],
               [title |-> X, lat |-> Y, lon |-> Undefined, dist |-> Y],
               [title |-> X, lat |-> Y, lon |-> Y, dist |-> Undefined]})

LangLinkResponses ==
    Responses({[lang |-> JsStr(De), text |-> <<"X">>],
               [lang |-> JsStr(Fr), text |-> <<"Y", "_">>],
               [lang |-> JsStr(<<"e", "n">>), text |-> <<"Z">>],
               [lang |-> Undefined, text |-> <<"Y">>]})

ExpandLangLinks ==
    {FetchError,
     Doc(<<>>),
     Doc(<<[lang |-> JsStr(De), text |-> <<"X">>]>>),
     Doc(<<[lang |-> JsStr(De), text |-> <<"X">>], [lang |-> JsStr(Fr), text |-> <<>>]>>),
     Doc(<<[lang |-> JsStr(De), text |-> <<"X">>], [lang |-> Undefined, text |-> <<"Y">>]>>)}

ExpandSynonymsResponses ==
    {FetchError, Doc(<<>>), Doc(<<[title |-> X]>>), Doc(<<[title |-> X], [title |-> Y]>>)}

ExpandUpstreams ==
    [langlinks : ExpandLangLinks,
     synonyms : [{En, De, Fr} -> ExpandSynonymsResponses]]

MutualUpstreams == [inbound : TitleResponses, outbound : TitleResponses]

UrlResponses ==
    Failures \cup {Doc(<<>>), Doc(<<[url |-> X]>>), Doc(<<[url |-> Undefined]>>)}

GeoResponses ==
    Failures \cup {Doc(<<>>)}
    \cup {Doc(<<[lat |-> a, lon |-> b]>>) : a \in {X, Undefined}, b \in {Y, Undefined}}

LinkResponses ==
    Responses({[title |-> X, url |-> Y],
               [title |-> Undefined, url |-> Y],
               [title |-> X, url |-> Undefined]})

\* statements: a string, an item, a statement without a value, a statement
\* whose main snak is absent, an external identifier that reads like the id
\* of an item
StringStatement ==
    [mainsnak |-> [datatype |-> "string", datavalue |-> [value |-> JsStr(<<"v">>)]]]
ItemStatement(n) ==
    [mainsnak |-> [datatype |-> "wikibase-item",
                   datavalue |-> [value |-> [numericId |-> <<n>>]]]]
IdLikeStatement ==
    [mainsnak |-> [datatype |-> "external-id", datavalue |-> [value |-> JsStr(Q1)]]]
NoValueStatement == [mainsnak |-> [datatype |-> "string", datavalue |-> Undefined]]
BrokenStatement == [mainsnak |-> Undefined]

\* an entity with one property more than a labels request names ids
ManyProperties ==
    Doc([i \in 1..(ChunkSize + 1) |->
            [property |-> <<"P", ToString(i)>>, statements |-> <<StringStatement>>]])

ClaimsResponses ==
    LET first == SeqsUpTo({StringStatement, ItemStatement("1"), NoValueStatement,
                           BrokenStatement}, MaxEntries)
        second == {<<StringStatement>>, <<ItemStatement("2"), StringStatement>>,
                   <<IdLikeStatement>>}
    IN  Failures
        \cup {ManyProperties}
        \cup {Doc(<<[property |-> P1, statements |-> a]>>) : a \in first}
        \cup {Doc(<<[property |-> P1, statements |-> a],
                    [property |-> P2, statements |-> b]>>) : a \in first, b \in second}

\* the label responses: a failure, every id labelled, only the properties,
\* one answered request and a failure of the next, two answered requests
Labelled(ids) ==
    [status |-> "ok", path |-> TRUE, labels |-> [id \in ids |-> <<"label of">> \o id]]

LabelsResponses ==
    {<<FetchError>>, <<Labelled({P1, P2, Q1, Q2})>>, <<Labelled({P1, P2})>>,
     <<Labelled({P1, P2, P51, Q1, Q2})>>,
     <<Labelled({P1, P2, P51, Q1, Q2}), Labelled({P1, P2, P51, Q1, Q2})>>}

FactsUpstreams == [claims : ClaimsResponses, labels : LabelsResponses]

\* the items of a metrics response in the provider's order, oldest first:
\* 28 February, 29 February and 1 March 2016, and items without a field
Item(parts, n) == [timestamp |-> Stamp(parts), views |-> JsNum(n), devices |-> JsNum(n)]

ItemKinds ==
    {Item(<<2016, 2, 28, 0>>, 5),
     Item(<<2016, 2, 29, 0>>, 7),
     Item(<<2016, 3, 1, 0>>, 2),
     [timestamp |-> Undefined, views |-> JsNum(1), devices |-> JsNum(1)],
     [timestamp |-> Stamp(<<2016, 3, 2, 0>>), views |-> Undefined, devices |-> Undefined]}

ItemResponses == Responses(ItemKinds)

TopResponses ==
    Responses({[article |-> JsStr(<<"A", "_", "b">>), views |-> JsNum(9)],
               [article |-> Undefined, views |-> JsNum(9)],
               [article |-> X, views |-> Undefined]})

\* the revisions of a response in the provider's order, newest first
Revision(parts, n) == [timestamp |-> Stamp(parts), size |-> JsNum(n)]

\* n + 1 revisions make n rows: the last one only gives the size the one
\* before it is compared with, so a response holds up to MaxEntries + 1
RevisionResponses ==
    Failures
    \cup {Doc(e) : e \in SeqsUpTo({Revision(<<2016, 3, 1, 0, 0, 0>>, 10),
                                    Revision(<<2016, 2, 29, 23, 59, 59>>, 7),
                                    Revision(<<2016, 2, 29, 23, 59, 58>>, 8),
                                    [timestamp |-> Undefined, size |-> JsNum(3)],
                                    [timestamp |-> Stamp(<<2016, 1, 1, 0, 0, 0>>),
                                     size |-> Undefined]},
                                   MaxEntries + 1)}

SearchResponses ==
    Failures
    \cup {[status |-> "ok", path |-> TRUE, entries |-> e, searchinfo |-> i] :
             e \in SeqsUpTo({[title |-> X], [title |-> Y], [title |-> Undefined]},
                            MaxEntries),
             i \in {Undefined, [suggestion |-> Y], [suggestion |-> Undefined]}}

QidResponses ==
    Failures \cup {Doc(<<>>), Doc(<<[wikibase_item |-> JsStr(Q1)]>>),
                   Doc(<<[wikibase_item |-> Undefined]>>)}

\* the labels of an entity: at most one per language
EntityResponses ==
    Failures
    \cup {Doc(e) : e \in {q \in SeqsUpTo({[language |-> Fr, value |-> X],
                                         [language |-> De, value |-> Y],
                                         [language |-> <<"e", "n">>, value |-> Undefined]},
                                        MaxEntries) :
                             \A i, j \in 1..Len(q) : i # j => q[i].language # q[j].language}}

QuarryResponses ==
    Failures
    \cup {[status |-> "ok", path |-> TRUE, headers |-> h, rows |-> r] :
             h \in {Undefined, JsArr(<<X, Y>>)},
             r \in {Undefined} \cup {JsArr(q) : q \in SeqsUpTo({JsArr(<<X, Y>>)}, MaxEntries)}}

SuggestResponses ==
    {FetchError, ParseError}
    \cup {Doc(e) : e \in SeqsUpTo({[data |-> X], [data |-> Y], [data |-> Undefined]},
                                 MaxEntries)}

(***************************************************************************)
(* The calls.  A spreadsheet cell calls one entry point with its arguments *)
(* and gets the value back; the functions keep nothing between two calls,  *)
(* so the next call starts from the state the previous one started from.   *)
(* Each action takes the locators L and the upstream responses U its call  *)
(* is made with.                                                           *)
(***************************************************************************)
Idle == fn = "none"

\* Call leaving another default language behind
Call_WritesDefaultLanguage(f, a, u, out) ==
    /\ fn' = f
    /\ args' = a
    /\ upstream' = u
    /\ requests' = out.reqs
    /\ result' = out.ret
    /\ DEFAULT_LANGUAGE' = <<"d", "e">>
    /\ UNCHANGED HEADERS

\* the call: the entry point reads the globals and writes neither of them
Call(f, a, u, out) ==
    /\ fn' = f
    /\ args' = a
    /\ upstream' = u
    /\ requests' = out.reqs
    /\ result' = out.ret
    /\ UNCHANGED globals

CallWIKISYNONYMS(L, U) ==
    /\ Idle
    /\ \E article \in L,
           opt_namespaces \in Namespaces,
           resp \in U :
           Call("WIKISYNONYMS",
                [article |-> article, opt_namespaces |-> opt_namespaces],
                [response |-> resp],
                WIKISYNONYMS(article, opt_namespaces, resp))

CallWIKIARTICLESAROUND(L, U) ==
    /\ Idle
    /\ \E articleOrPoint \in L,
           radius \in Radii,
           opt_includeDistance \in Flags,
           opt_namespaces \in Namespaces,
           resp \in U :
           Call("WIKIARTICLESAROUND",
                [articleOrPoint |-> articleOrPoint, radius |-> radius, opt_includeDistance |-> opt_includeDistance, opt_namespaces |-> opt_namespaces],
                [response |-> resp],
                WIKIARTICLESAROUND(articleOrPoint, radius, opt_includeDistance, opt_namespaces, resp))

CallWIKITRANSLATE(L, U) ==
    /\ Idle
    /\ \E article \in L,
           opt_targetLanguages \in TargetLanguages,
           opt_skipHeader \in Flags,
           resp \in U :
           Call("WIKITRANSLATE",
                [article |-> article, opt_targetLanguages |-> opt_targetLanguages, opt_skipHeader |-> opt_skipHeader],
                [response |-> resp],
                WIKITRANSLATE(article, opt_targetLanguages, opt_skipHeader, FALSE, resp))

CallWIKIEXPAND(L, U) ==
    /\ Idle
    /\ \E article \in L,
           opt_targetLanguages \in TargetLanguages,
           up \in U :
           Call("WIKIEXPAND",
                [article |-> article, opt_targetLanguages |-> opt_targetLanguages],
                up,
                WIKIEXPAND(article, opt_targetLanguages, up))

CallWIKICOMMONSLINK(L, U) ==
    /\ Idle
    /\ \E fileName \in L,
           resp \in U :
           Call("WIKICOMMONSLINK",
                [fileName |-> fileName],
                [response |-> resp],
                WIKICOMMONSLINK(fileName, resp))

CallWIKICATEGORYMEMBERS(L, U) ==
    /\ Idle
    /\ \E category \in L,
           opt_namespaces \in Namespaces,
           resp \in U :
           Call("WIKICATEGORYMEMBERS",
                [category |-> category, opt_namespaces |-> opt_namespaces],
                [response |-> resp],
                WIKICATEGORYMEMBERS(category, opt_namespaces, resp))

CallWIKISUBCATEGORIES(L, U) ==
    /\ Idle
    /\ \E category \in L,
           opt_namespaces \in Namespaces,
           resp \in U :
           Call("WIKISUBCATEGORIES",
                [category |-> category, opt_namespaces |-> opt_namespaces],
                [response |-> resp],
                WIKISUBCATEGORIES(category, opt_namespaces, resp))

CallWIKICATEGORIES(L, U) ==
    /\ Idle
    /\ \E article \in L,
           resp \in U :
           Call("WIKICATEGORIES",
                [article |-> article],
                [response |-> resp],
                WIKICATEGORIES(article, resp))

CallWIKIINBOUNDLINKS(L, U) ==
    /\ Idle
    /\ \E article \in L,
           opt_namespaces \in Namespaces,
           resp \in U :
           Call("WIKIINBOUNDLINKS",
                [article |-> article, opt_namespaces |-> opt_namespaces],
                [response |-> resp],
                WIKIINBOUNDLINKS(article, opt_namespaces, resp))

CallWIKIOUTBOUNDLINKS(L, U) ==
    /\ Idle
    /\ \E article \in L,
           opt_namespaces \in Namespaces,
           resp \in U :
           Call("WIKIOUTBOUNDLINKS",
                [article |-> article, opt_namespaces |-> opt_namespaces],
                [response |-> resp],
                WIKIOUTBOUNDLINKS(article, opt_namespaces, resp))

CallWIKIMUTUALLINKS(L, U) ==
    /\ Idle
    /\ \E article \in L,
           opt_namespaces \in Namespaces,
           up \in U :
           Call("WIKIMUTUALLINKS",
                [article |-> article, opt_namespaces |-> opt_namespaces],
                up,
                WIKIMUTUALLINKS(article, opt_namespaces, up))

CallWIKIGEOCOORDINATES(L, U) ==
    /\ Idle
    /\ \E article \in L,
           resp \in U :
           Call("WIKIGEOCOORDINATES",
                [article |-> article],
                [response |-> resp],
                WIKIGEOCOORDINATES(article, resp))

CallWIKILINKSEARCH(L, U) ==
    /\ Idle
    /\ \E linkPattern \in L,
           opt_protocol \in Protocols,
           opt_namespaces \in Namespaces,
           resp \in U :
           Call("WIKILINKSEARCH",
                [linkPattern |-> linkPattern, opt_protocol |-> opt_protocol, opt_namespaces |-> opt_namespaces],
                [response |-> resp],
                WIKILINKSEARCH(linkPattern, opt_protocol, opt_namespaces, resp))

CallWIKIDATAFACTS(L, U) ==
    /\ Idle
    /\ \E article \in L,
           opt_multiObjectMode \in Modes,
           opt_properties \in PropertyFilters,
           up \in U :
           Call("WIKIDATAFACTS",
                [article |-> article, opt_multiObjectMode |-> opt_multiObjectMode, opt_properties |-> opt_properties],
                up,
                WIKIDATAFACTS(article, opt_multiObjectMode, opt_properties, up))

CallWIKIPAGEVIEWS(L, U) ==
    /\ Idle
    /\ \E article \in L,
           range \in DateRanges,
           opt_sumOnly \in Flags,
           now \in Clocks,
           resp \in U :
           Call("WIKIPAGEVIEWS",
                [article |-> article, range |-> range, opt_sumOnly |-> opt_sumOnly],
                [now |-> now, response |-> resp],
                WIKIPAGEVIEWS(article, range.start, range.end, opt_sumOnly, now, resp))

CallWIKIPAGEVIEWSPERARTICLE(L, U) ==
    /\ Idle
    /\ \E project \in Projects,
           article \in L,
           options \in Options,
           range \in DateRanges,
           opt_sumOnly \in Flags,
           now \in Clocks,
           resp \in U :
           Call("WIKIPAGEVIEWSPERARTICLE",
                [project |-> project, article |-> article, options |-> options, range |-> range, opt_sumOnly |-> opt_sumOnly],
                [now |-> now, response |-> resp],
                WIKIPAGEVIEWSPERARTICLE(project, article, options.access, options.agent,
                                            options.granularity, range.start, range.end,
                                            opt_sumOnly, now, resp))

CallWIKIPAGEVIEWSAGGREGATE(L, U) ==
    /\ Idle
    /\ \E project \in L,
           options \in Options,
           range \in DateRanges,
           now \in Clocks,
           resp \in U :
           Call("WIKIPAGEVIEWSAGGREGATE",
                [project |-> project, options |-> options, range |-> range],
                [now |-> now, response |-> resp],
                WIKIPAGEVIEWSAGGREGATE(project, options.access, options.agent,
                                           options.granularity, range.start, range.end,
                                           now, resp))

CallWIKIPAGEVIEWSTOP(L, U) ==
    /\ Idle
    /\ \E project \in L,
           options \in Options,
           range \in DateRanges,
           now \in Clocks,
           resp \in U :
           Call("WIKIPAGEVIEWSTOP",
                [project |-> project, options |-> options, range |-> range],
                [now |-> now, response |-> resp],
                WIKIPAGEVIEWSTOP(project, options.access, range.start, now, resp))

CallWIKIUNIQUEDEVICES(L, U) ==
    /\ Idle
    /\ \E project \in L,
           options \in Options,
           range \in DateRanges,
           now \in Clocks,
           resp \in U :
           Call("WIKIUNIQUEDEVICES",
                [project |-> project, options |-> options, range |-> range],
                [now |-> now, response |-> resp],
                WIKIUNIQUEDEVICES(project, options.access, options.granularity,
                                      range.start, range.end, now, resp))

CallWIKIPAGEEDITS(L, U) ==
    /\ Idle
    /\ \E article \in L,
           range \in DateRanges,
           now \in Clocks,
           resp \in U :
           Call("WIKIPAGEEDITS",
                [article |-> article, range |-> range],
                [now |-> now, response |-> resp],
                WIKIPAGEEDITS(article, range.start, range.end, now, resp))

CallWIKISEARCH(L, U) ==
    /\ Idle
    /\ \E query \in L,
           opt_didYouMean \in Flags,
           opt_namespaces \in Namespaces,
           resp \in U :
           Call("WIKISEARCH",
                [query |-> query, opt_didYouMean |-> opt_didYouMean, opt_namespaces |-> opt_namespaces],
                [response |-> resp],
                WIKISEARCH(query, opt_didYouMean, opt_namespaces, resp))

CallWIKIDATAQID(L, U) ==
    /\ Idle
    /\ \E article \in L,
           resp \in U :
           Call("WIKIDATAQID",
                [article |-> article],
                [response |-> resp],
                WIKIDATAQID(article, resp))

CallWIKIDATALABELS(L, U) ==
    /\ Idle
    /\ \E qid \in L,
           opt_targetLanguages \in LabelTargets,
           resp \in U :
           Call("WIKIDATALABELS",
                [qid |-> qid, opt_targetLanguages |-> opt_targetLanguages],
                [response |-> resp],
                WIKIDATALABELS(qid, opt_targetLanguages, resp))

CallWIKIDATADESCRIPTIONS(L, U) ==
    /\ Idle
    /\ \E qid \in L,
           opt_targetLanguages \in LabelTargets,
           resp \in U :
           Call("WIKIDATADESCRIPTIONS",
                [qid |-> qid, opt_targetLanguages |-> opt_targetLanguages],
                [response |-> resp],
                WIKIDATADESCRIPTIONS(qid, opt_targetLanguages, resp))

CallWIKIQUARRY(L, U) ==
    /\ Idle
    /\ \E queryId \in L,
           resp \in U :
           Call("WIKIQUARRY",
                [queryId |-> queryId],
                [response |-> resp],
                WIKIQUARRY(queryId, resp))

\* GOOGLESUGGEST declares one parameter: a second argument of the call is
\* accepted and never read
CallGOOGLESUGGEST(L, U) ==
    /\ Idle
    /\ \E query \in L,
           opt_language \in SuggestLanguages,
           resp \in U :
           Call("GOOGLESUGGEST",
                [query |-> query, opt_language |-> opt_language],
                [response |-> resp],
                GOOGLESUGGEST(query, resp))

\* the cell has its value; the next call starts afresh
Reset ==
    /\ ~Idle
    /\ fn' = "none"
    /\ args' = <<>>
    /\ upstream' = <<>>
    /\ requests' = <<>>
    /\ result' = Undefined
    /\ UNCHANGED globals

Init ==
    /\ fn = "none"
    /\ args = <<>>
    /\ upstream = <<>>
    /\ requests = <<>>
    /\ result = Undefined
    /\ HEADERS = [headers |-> [XUserAgent |-> "Wikipedia Tools for Google Spreadsheets"]]
    /\ DEFAULT_LANGUAGE = <<"e", "n">>

Next ==
    \/ CallWIKISYNONYMS(Locators, TitleResponses)
    \/ CallWIKIARTICLESAROUND(Locators, PlaceResponses)
    \/ CallWIKITRANSLATE(FewLocators, LangLinkResponses)
    \/ CallWIKIEXPAND(FewLocators, ExpandUpstreams)
    \/ CallWIKICOMMONSLINK(Locators, UrlResponses)
    \/ CallWIKICATEGORYMEMBERS(Locators, TitleResponses)
    \/ CallWIKISUBCATEGORIES(Locators, TitleResponses)
    \/ CallWIKICATEGORIES(Locators, TitleResponses)
    \/ CallWIKIINBOUNDLINKS(Locators, TitleResponses)
    \/ CallWIKIOUTBOUNDLINKS(Locators, TitleResponses)
    \/ CallWIKIMUTUALLINKS(FewLocators, MutualUpstreams)
    \/ CallWIKIGEOCOORDINATES(Locators, GeoResponses)
    \/ CallWIKILINKSEARCH(Locators, LinkResponses)
    \/ CallWIKIDATAFACTS(FactLocators, FactsUpstreams)
    \/ CallWIKIPAGEVIEWS(FewLocators, ItemResponses)
    \/ CallWIKIPAGEVIEWSPERARTICLE(Articles, ItemResponses)
    \/ CallWIKIPAGEVIEWSAGGREGATE(Projects, ItemResponses)
    \/ CallWIKIPAGEVIEWSTOP(Projects, TopResponses)
    \/ CallWIKIUNIQUEDEVICES(Projects, ItemResponses)
    \/ CallWIKIPAGEEDITS(FewLocators, RevisionResponses)
    \/ CallWIKISEARCH(FewLocators, SearchResponses)
    \/ CallWIKIDATAQID(Locators, QidResponses)
    \/ CallWIKIDATALABELS(Qids, EntityResponses)
    \/ CallWIKIDATADESCRIPTIONS(Qids, EntityResponses)
    \/ CallWIKIQUARRY(QueryIds, QuarryResponses)
    \/ CallGOOGLESUGGEST(Locators, SuggestResponses)
    \/ Reset

Spec == Init /\ [][Next]_vars

(***************************************************************************)
(* The same calls with every short locator, against one failing and one    *)
(* answering upstream per endpoint: the specification of the properties    *)
(* of locator parsing.                                                     *)
(***************************************************************************)
\* a fetch that throws, and a response with the one entry
FewOf(entry) == {FetchError, Doc(<<entry>>)}

FewTitleResponses == FewOf([title |-> X])

FewExpandUpstreams ==
    {[langlinks |-> FetchError,
      synonyms |-> [l \in {En, De} |-> FetchError]],
     [langlinks |-> Doc(<<[lang |-> JsStr(De), text |-> <<"X">>]>>),
      synonyms |-> [l \in {En, De} |-> Doc(<<[title |-> Y]>>)]]}

FewMutualUpstreams == [inbound : FewTitleResponses, outbound : FewTitleResponses]

FewFactsUpstreams ==
    {[claims |-> FetchError, labels |-> <<FetchError>>],
     [claims |-> Doc(<<[property |-> P1, statements |-> <<ItemStatement("1")>>]>>),
      labels |-> <<Labelled({P1, Q1})>>]}

FewSearchResponses ==
    {FetchError,
     [status |-> "ok", path |-> TRUE, entries |-> <<[title |-> X]>>,
      searchinfo |-> Undefined]}

LocatorNext ==
    \/ CallWIKISYNONYMS(AllLocators, FewTitleResponses)
    \/ CallWIKIARTICLESAROUND(AllLocators,
                              FewOf([title |-> X, lat |-> Y, lon |-> Y, dist |-> Y]))
    \/ CallWIKITRANSLATE(AllLocators, FewOf([lang |-> JsStr(De), text |-> <<"X">>]))
    \/ CallWIKIEXPAND(AllLocators, FewExpandUpstreams)
    \/ CallWIKICOMMONSLINK(AllLocators, FewOf([url |-> X]))
    \/ CallWIKICATEGORYMEMBERS(AllLocators, FewTitleResponses)
    \/ CallWIKISUBCATEGORIES(AllLocators, FewTitleResponses)
    \/ CallWIKICATEGORIES(AllLocators, FewTitleResponses)
    \/ CallWIKIINBOUNDLINKS(AllLocators, FewTitleResponses)
    \/ CallWIKIOUTBOUNDLINKS(AllLocators, FewTitleResponses)
    \/ CallWIKIMUTUALLINKS(AllLocators, FewMutualUpstreams)
    \/ CallWIKIGEOCOORDINATES(AllLocators, FewOf([lat |-> X, lon |-> Y]))
    \/ CallWIKILINKSEARCH(AllLocators, FewOf([title |-> X, url |-> Y]))
    \/ CallWIKIDATAFACTS(AllLocators, FewFactsUpstreams)
    \/ CallWIKIPAGEVIEWS(AllLocators, FewOf(Item(<<2016, 2, 29, 0>>, 7)))
    \/ CallWIKIPAGEEDITS(AllLocators, FewOf(Revision(<<2016, 3, 1, 0, 0, 0>>, 10)))
    \/ CallWIKISEARCH(AllLocators, FewSearchResponses)
    \/ CallWIKIDATAQID(AllLocators, FewOf([wikibase_item |-> JsStr(Q1)]))
    \/ CallGOOGLESUGGEST(AllLocators, FewOf([data |-> X]))
    \/ Reset

LocatorSpec == Init /\ [][LocatorNext]_vars

(***************************************************************************)
(* What the properties below read off a call.                              *)
(***************************************************************************)
TitleListFunctions ==
    {"WIKISYNONYMS", "WIKICATEGORYMEMBERS", "WIKISUBCATEGORIES", "WIKICATEGORIES",
     "WIKIINBOUNDLINKS", "WIKIOUTBOUNDLINKS"}

ItemFunctions ==
    {"WIKIPAGEVIEWS", "WIKIPAGEVIEWSPERARTICLE", "WIKIPAGEVIEWSAGGREGATE",
     "WIKIUNIQUEDEVICES"}

\* a fetch that threw, or a body the parser rejected
Failed(resp) == resp.status \in {"fetch_error", "parse_error"}

\* the call fetched, and a fetch it made threw or was answered with a body
\* that could not be parsed
FailedFetch ==
    /\ requests # <<>>
    /\ CASE fn = "WIKIMUTUALLINKS" ->
                Failed(upstream.inbound) \/ Failed(upstream.outbound)
         [] fn = "WIKIEXPAND" ->
                \/ Failed(upstream.langlinks)
                \/ \E i \in 2..Len(requests) :
                       Failed(SynonymsResponse(upstream, requests[i].language))
         [] fn = "WIKIDATAFACTS" ->
                \/ Failed(upstream.claims)
                \/ \E c \in 1..(Len(requests) - 1) :
                       Failed(LabelsResponse(upstream.labels, c))
         [] OTHER -> Failed(upstream.response)

\* the rows of a returned value: those of a table, none of anything else
RowsOf(v) == IF v.t = "array" THEN v.a ELSE <<>>

\* the elements of a returned list, as a set
ElementsOf(v) == {RowsOf(v)[i] : i \in 1..Len(RowsOf(v))}

(***************************************************************************)
(* Upstream failures.                                                      *)
(***************************************************************************)
\* C1: for every entry point and every argument list, a call one of whose
\* upstream fetches throws, or is answered with a body that cannot be parsed,
\* returns the empty string and no rows at all.
C1_FailureYieldsEmptyResult ==
    FailedFetch => result = EmptyString

(***************************************************************************)
(* WIKIMUTUALLINKS.                                                        *)
(***************************************************************************)
\* C2: for every article and namespace filter, WIKIMUTUALLINKS returns
\* exactly the titles that are both in the list WIKIINBOUNDLINKS returns and
\* in the list WIKIOUTBOUNDLINKS returns for the same arguments and upstream
\* data, also when one or both of the lists are empty.
C2_MutualLinksAreTheIntersection ==
    fn = "WIKIMUTUALLINKS" =>
        LET inbound == WIKIINBOUNDLINKS(args.article, args.opt_namespaces,
                                        upstream.inbound).ret
            outbound == WIKIOUTBOUNDLINKS(args.article, args.opt_namespaces,
                                          upstream.outbound).ret
        IN  /\ result # Exception
            /\ ElementsOf(result) = ElementsOf(inbound) \cap ElementsOf(outbound)

(***************************************************************************)
(* WIKIEXPAND.                                                             *)
(***************************************************************************)
\* C3: WIKIEXPAND(article, targetLanguages) returns one row per row [L, T] of
\* WIKITRANSLATE(article, targetLanguages), in the same order, and no other
\* row; the row is L, T and then exactly the elements WIKISYNONYMS('L:T')
\* returns, and nothing more when that call finds no synonyms.
C3_ExpandRowsAreTranslationThenSynonyms ==
    fn = "WIKIEXPAND" =>
        LET translated == RowsOf(WIKITRANSLATE(args.article, args.opt_targetLanguages,
                                               FALSE, FALSE, upstream.langlinks).ret)
            synonyms(row) ==
                RowsOf(WIKISYNONYMS(JsStr(row.a[1].s \o <<":">> \o row.a[2].s), Undefined,
                                    SynonymsResponse(upstream, row.a[1].s)).ret)
        IN  /\ Len(RowsOf(result)) = Len(translated)
            /\ \A i \in 1..Len(translated) :
                   RowsOf(result)[i] = JsArr(translated[i].a \o synonyms(translated[i]))

(***************************************************************************)
(* The order of dated rows.                                                *)
(***************************************************************************)
DateRangeFunctions == ItemFunctions \cup {"WIKIPAGEEDITS"}

\* the instant a stamp of the response spells
InstantOf(entry) == ParseTimestamp(entry.timestamp).n

\* the response lists entries that all carry a timestamp, no two the same, in
\* the provider's order: oldest first from the metrics endpoints, newest
\* first from the revisions endpoint
InProviderOrder ==
    /\ fn \in DateRangeFunctions
    /\ requests # <<>>
    /\ Readable(upstream.response)
    /\ LET entries == upstream.response.entries
       IN  /\ \A i \in 1..Len(entries) : IsStamp(entries[i].timestamp)
           /\ \A i, j \in 1..Len(entries) :
                  i < j => IF fn = "WIKIPAGEEDITS"
                           THEN InstantOf(entries[i]) > InstantOf(entries[j])
                           ELSE InstantOf(entries[i]) < InstantOf(entries[j])

\* the call returned rows [date, count], not a sum
ReturnedDatedRows ==
    ~(fn \in {"WIKIPAGEVIEWS", "WIKIPAGEVIEWSPERARTICLE"} /\ args.opt_sumOnly)

\* C4: every date-range function (WIKIPAGEVIEWS, WIKIPAGEVIEWSPERARTICLE,
\* WIKIPAGEVIEWSAGGREGATE, WIKIUNIQUEDEVICES, WIKIPAGEEDITS) returns its rows
\* in strictly descending order of their dates, newest first, whenever the
\* response lists entries with distinct timestamps in the provider's order.
C4_RowsAreNewestFirst ==
    (InProviderOrder /\ ReturnedDatedRows) =>
        \A i, j \in 1..Len(RowsOf(result)) :
            i < j => RowsOf(result)[i].a[1].n > RowsOf(result)[j].a[1].n

(***************************************************************************)
(* The shape of a returned value.                                          *)
(***************************************************************************)
\* C5: for every entry point, every argument list and every upstream
\* response, the value returned is a list or table that is not empty, or the
\* empty string; it is never an empty array and never undefined.
C5_NonEmptyTableOrEmptyString ==
    fn # "none" =>
        \/ result = EmptyString
        \/ result.t = "array" /\ Len(result.a) > 0

\* whether converting the k-th entry of the response into a row throws
ConversionThrows(entries, k) ==
    CASE fn \in TitleListFunctions -> LacksTitle(entries[k])
      [] fn = "WIKIARTICLESAROUND" ->
             LacksPlaceAttribute(args.opt_includeDistance, entries[k])
      [] fn = "WIKITRANSLATE" -> entries[k].lang = Undefined
      [] fn = "WIKILINKSEARCH" ->
             entries[k].title = Undefined \/ entries[k].url = Undefined
      [] fn \in ItemFunctions -> ReturnedDatedRows /\ entries[k].timestamp = Undefined
      [] fn = "WIKIPAGEVIEWSTOP" -> entries[k].article = Undefined
      [] fn = "WIKIPAGEEDITS" ->
             /\ k < Len(entries)
             /\ \/ entries[k].timestamp = Undefined
                \/ entries[k].size = Undefined
                \/ entries[k + 1].size = Undefined
      [] fn = "GOOGLESUGGEST" -> entries[k].data = Undefined
      [] OTHER -> FALSE

ListFunctions ==
    TitleListFunctions \cup ItemFunctions
    \cup {"WIKIARTICLESAROUND", "WIKITRANSLATE", "WIKILINKSEARCH", "WIKIPAGEVIEWSTOP",
          "WIKIPAGEEDITS", "GOOGLESUGGEST"}

\* the call made rows of the first entries of the response, and then the
\* conversion of a later entry threw
ThrewAfterRows ==
    /\ fn \in ListFunctions
    /\ requests # <<>>
    /\ Readable(upstream.response)
    /\ LET entries == upstream.response.entries
       IN  \E k \in 2..Len(entries) :
               /\ ConversionThrows(entries, k)
               /\ \A j \in 1..(k - 1) : ~ConversionThrows(entries, j)

\* C6: no partial result propagates: when converting the k-th entry of a
\* response throws after earlier entries were made into rows, those rows are
\* discarded and the call returns the empty string, for every entry point
\* that returns a list.
C6_NoPartialResult ==
    ThrewAfterRows => result = EmptyString

\* a value a cell or a row can hold: not undefined and not null
Present(v) == v \notin {Undefined, Null}

\* a row with every cell its format has: a single value that is present, or
\* an array of cells that are all present
CompleteRow(row) ==
    /\ Present(row)
    /\ row.t = "array" => \A c \in 1..Len(row.a) : Present(row.a[c])

\* C7: no returned table holds a partial or malformed row: for every entry
\* point and every upstream response, no row of the result is undefined or
\* null and no row lacks a cell of its format; a row that cannot be completed
\* is left out.
C7_EveryRowIsComplete ==
    fn # "none" =>
        \A i \in 1..Len(RowsOf(result)) : CompleteRow(RowsOf(result)[i])

(***************************************************************************)
(* Locators.                                                               *)
(***************************************************************************)
CategoryFunctions == {"WIKICATEGORYMEMBERS", "WIKISUBCATEGORIES"}

\* the entry points whose first argument is a "language:subject" locator
LocatorFunctions ==
    TitleListFunctions
    \cup {"WIKIARTICLESAROUND", "WIKITRANSLATE", "WIKIEXPAND", "WIKICOMMONSLINK",
          "WIKIMUTUALLINKS", "WIKIGEOCOORDINATES", "WIKILINKSEARCH", "WIKIDATAFACTS",
          "WIKIPAGEVIEWS", "WIKIPAGEEDITS", "WIKISEARCH", "WIKIDATAQID",
          "GOOGLESUGGEST"}

\* the locator the call was made with
LocatorOf ==
    CASE fn = "WIKIARTICLESAROUND" -> args.articleOrPoint
      [] fn = "WIKICOMMONSLINK" -> args.fileName
      [] fn \in CategoryFunctions -> args.category
      [] fn = "WIKILINKSEARCH" -> args.linkPattern
      [] fn \in {"WIKISEARCH", "GOOGLESUGGEST"} -> args.query
      [] OTHER -> args.article

\* the subject a request carries, in the parameter its endpoint reads it from
CarriedSubject(request) ==
    IF "gscoord" \in DOMAIN request THEN request.gscoord
    ELSE IF "gspage" \in DOMAIN request THEN request.gspage
    ELSE IF "ids" \in DOMAIN request THEN request.ids
    ELSE request.title

\* how entry point f writes a subject into its request
ExpectedSubject(f, subject) ==
    CASE f \in {"WIKILINKSEARCH", "WIKISEARCH", "WIKIDATAQID", "GOOGLESUGGEST"} ->
             EncodeURIComponent(subject)
      [] f = "WIKICOMMONSLINK" -> <<"File:">> \o EncodeTitle(subject)
      [] f = "WIKIARTICLESAROUND" /\ IsPoint(subject) ->
             SubSeq(subject, 1, IndexOf(subject, ",") - 1) \o <<"%7C">>
             \o SubSeq(subject, IndexOf(subject, ",") + 1, Len(subject))
      [] OTHER -> EncodeTitle(subject)

\* the call was made with a locator that is a string
LocatorCall == fn \in LocatorFunctions /\ LocatorOf.t = "string"

\* ... that is not empty and holds no colon
NoColonCall ==
    LocatorCall /\ LocatorOf.s # <<>> /\ \A i \in 1..Len(LocatorOf.s) : LocatorOf.s[i] # ":"

\* ... that holds a colon
ColonCall == LocatorCall /\ \E i \in 1..Len(LocatorOf.s) : LocatorOf.s[i] = ":"

\* WIKIDATAFACTS asked for an entity by its Wikidata id
FactsById(subject) == fn = "WIKIDATAFACTS" /\ IsQid(subject)

\* C8 as the specification words it: for every entry point that takes a
\* locator, a locator without a colon is parsed as language 'en' with the
\* whole string as the subject, and the request is addressed to the 'en' site.
C8_NoColonAddressesEn ==
    NoColonCall =>
        /\ requests # <<>>
        /\ CarriedSubject(requests[1]) = ExpectedSubject(fn, LocatorOf.s)
        /\ "language" \in DOMAIN requests[1]
        /\ requests[1].language = <<"e", "n">>

\* C8, amended: for every entry point that takes a locator, a non-empty
\* locator without a colon is taken whole as the subject of the first
\* request, which is addressed to the 'en' site; except that WIKIDATAFACTS,
\* given a Wikidata id (Q and digits), asks www.wikidata.org for the entity by
\* id, in a request that names no language.
C8_NoColonAddressesEnUnlessById ==
    NoColonCall =>
        /\ requests # <<>>
        /\ CarriedSubject(requests[1]) = ExpectedSubject(fn, LocatorOf.s)
        /\ IF FactsById(LocatorOf.s)
           THEN "language" \notin DOMAIN requests[1]
           ELSE requests[1].language = <<"e", "n">>

\* a call with a bare title whose request went to the 'en' site
C8_BareTitleCalled ==
    /\ NoColonCall
    /\ fn = "WIKIPAGEEDITS"
    /\ requests # <<>>
    /\ requests[1].language = <<"e", "n">>
    /\ requests[1].title = LocatorOf.s

\* the text of s before its first colon, and the text after it
BeforeFirstColon(s) == SubSeq(s, 1, IndexOfColon(s) - 1)
AfterFirstColon(s) == SubSeq(s, IndexOfColon(s) + 1, Len(s))

\* the text of s up to its first line terminator
FirstLine(s) ==
    SubSeq(s, 1, Cardinality({k \in 1..Len(s) :
                                 \A j \in 1..k : s[j] \notin LineTerminators}))

\* C9 as the specification words it: for every entry point that takes a
\* locator, a locator with one or more colons is split at its first colon
\* only: the language is the text before it and the subject is everything
\* after it, further colons included.
C9_SplitAtFirstColon ==
    (ColonCall /\ requests # <<>>) =>
        /\ CarriedSubject(requests[1]) = ExpectedSubject(fn, AfterFirstColon(LocatorOf.s))
        /\ "language" \in DOMAIN requests[1] =>
               requests[1].language = BeforeFirstColon(LocatorOf.s)

\* C9, amended: a locator with one or more colons is split at its first
\* colon: the language is the text before it, and the subject is the text
\* after it up to the first line terminator, further colons included; a call
\* whose subject is empty issues no request.  WIKICATEGORYMEMBERS and
\* WIKISUBCATEGORIES split in this way only a locator with more than one
\* colon: with exactly one, the whole locator is the subject and the language
\* is 'en'.
C9_SplitAtFirstColonUpToLineEnd ==
    ColonCall =>
        LET s == LocatorOf.s
            whole == fn \in CategoryFunctions /\ CountColons(s) = 1
            language == IF whole THEN <<"e", "n">> ELSE BeforeFirstColon(s)
            subject == IF whole THEN s ELSE FirstLine(AfterFirstColon(s))
        IN  IF subject = <<>>
            THEN requests = <<>>
            ELSE /\ requests # <<>>
                 /\ CarriedSubject(requests[1]) = ExpectedSubject(fn, subject)
                 /\ "language" \in DOMAIN requests[1] =>
                        requests[1].language = language

\* a call with a locator of two colons, whose request carries the second
\* colon in its subject
C9_SecondColonInSubject ==
    /\ ColonCall
    /\ fn = "WIKISYNONYMS"
    /\ LocatorOf.s = <<"a", ":", ":">>
    /\ requests # <<>>
    /\ requests[1].language = <<"a">>
    /\ requests[1].title = <<"%3A">>

\* a language: one or more letters
IsLanguage(s) == s # <<>> /\ \A i \in 1..Len(s) : CharRank(s[i]) > 0

\* the call was made with a language, a colon and nothing else
EmptySubjectCall ==
    /\ LocatorCall
    /\ LocatorOf.s # <<>>
    /\ LocatorOf.s[Len(LocatorOf.s)] = ":"
    /\ IsLanguage(SubSeq(LocatorOf.s, 1, Len(LocatorOf.s) - 1))

\* C10: for every entry point that takes a locator, a locator whose subject
\* is empty (a language, a colon and nothing else, as in 'de:') returns the
\* empty string, and no upstream request is issued.
C10_EmptySubjectYieldsEmptyResult ==
    EmptySubjectCall => result = EmptyString /\ requests = <<>>

(***************************************************************************)
(* Missing arguments.                                                      *)
(***************************************************************************)
\* the first argument the call was made with
FirstArgumentOf ==
    CASE fn \in LocatorFunctions -> LocatorOf
      [] fn \in {"WIKIPAGEVIEWSPERARTICLE", "WIKIPAGEVIEWSAGGREGATE", "WIKIPAGEVIEWSTOP",
                 "WIKIUNIQUEDEVICES"} -> args.project
      [] fn \in {"WIKIDATALABELS", "WIKIDATADESCRIPTIONS"} -> args.qid
      [] fn = "WIKIQUARRY" -> args.queryId

\* an argument left out, or given as the empty string
Missing(v) == v \in {Undefined, EmptyString}

\* the call was made without its first argument (WIKIPAGEVIEWSPERARTICLE:
\* without its project or without its article)
MissingArgumentCall ==
    /\ fn # "none"
    /\ \/ Missing(FirstArgumentOf)
       \/ fn = "WIKIPAGEVIEWSPERARTICLE" /\ Missing(args.article)

\* C11: every entry point called with a missing or empty first argument (for
\* WIKIPAGEVIEWSPERARTICLE: a missing project or a missing article) returns
\* the empty string and issues no upstream request.
C11_MissingArgumentYieldsEmptyResult ==
    MissingArgumentCall => result = EmptyString /\ requests = <<>>

(***************************************************************************)
(* Responses of an unexpected shape.                                       *)
(***************************************************************************)
\* the fields of an entry that the functions read as attributes or values
EntryFields ==
    {"title", "lat", "lon", "dist", "lang", "url", "wikibase_item", "value", "data",
     "article", "views", "devices", "timestamp", "size"}

\* an entry without one of its fields
LacksField(entry) == \E k \in DOMAIN entry \cap EntryFields : entry[k] = Undefined

\* a response that was fetched and parsed, and lacks the element the entries
\* are read from, or lists an entry without one of its fields
Misshapen(resp) ==
    /\ resp.status = "ok"
    /\ \/ ~resp.path
       \/ /\ "entries" \in DOMAIN resp
          /\ \E i \in 1..Len(resp.entries) : LacksField(resp.entries[i])

\* a claims response that lacks the claims, or holds a statement without its
\* main snak
MisshapenClaims(resp) ==
    /\ resp.status = "ok"
    /\ \/ ~resp.path
       \/ \E i \in 1..Len(resp.entries) :
              \E k \in 1..Len(resp.entries[i].statements) :
                  StatementThrows(resp.entries[i].statements[k])

\* the call fetched, and a response it was given parsed but does not have
\* the expected shape
UnexpectedShape ==
    /\ requests # <<>>
    /\ CASE fn = "WIKIMUTUALLINKS" ->
                Misshapen(upstream.inbound) \/ Misshapen(upstream.outbound)
         [] fn = "WIKIEXPAND" ->
                \/ Misshapen(upstream.langlinks)
                \/ \E i \in 2..Len(requests) :
                       Misshapen(SynonymsResponse(upstream, requests[i].language))
         [] fn = "WIKIDATAFACTS" -> MisshapenClaims(upstream.claims)
         [] fn = "WIKIQUARRY" ->
                \/ Misshapen(upstream.response)
                \/ /\ Readable(upstream.response)
                   /\ Undefined \in {upstream.response.headers, upstream.response.rows}
         [] fn = "WIKISEARCH" ->
                \/ Misshapen(upstream.response)
                \/ /\ Readable(upstream.response)
                   /\ upstream.response.searchinfo = [suggestion |-> Undefined]
         [] OTHER -> Misshapen(upstream.response)

\* C12: for every entry point, an upstream response that parses successfully
\* but does not have the expected shape (a missing element, attribute or
\* field, such as no 'query' element, no 'items' array, no 'headers' or 'rows'
\* field) yields the empty string.
C12_UnexpectedShapeYieldsEmptyResult ==
    UnexpectedShape => result = EmptyString

(***************************************************************************)
(* Exceptions.                                                             *)
(***************************************************************************)
\* C13: no entry point lets an exception escape to the caller: for every
\* argument list and every upstream outcome (a failed fetch, a response that
\* cannot be parsed, a malformed or an empty response) the call returns a
\* value.
C13_NoExceptionEscapes ==
    fn # "none" => result # Exception

(***************************************************************************)
(* The default language, written out.                                      *)
(***************************************************************************)
\* the value and the requests of the entry point of the call, had it been
\* given the locator loc with the same other arguments, upstream and clock
SameCallWith(loc) ==
    CASE fn = "WIKISYNONYMS" ->
             WIKISYNONYMS(loc, args.opt_namespaces, upstream.response)
      [] fn = "WIKIARTICLESAROUND" ->
             WIKIARTICLESAROUND(loc, args.radius, args.opt_includeDistance,
                                args.opt_namespaces, upstream.response)
      [] fn = "WIKITRANSLATE" ->
             WIKITRANSLATE(loc, args.opt_targetLanguages, args.opt_skipHeader, FALSE,
                           upstream.response)
      [] fn = "WIKIEXPAND" -> WIKIEXPAND(loc, args.opt_targetLanguages, upstream)
      [] fn = "WIKICOMMONSLINK" -> WIKICOMMONSLINK(loc, upstream.response)
      [] fn = "WIKICATEGORYMEMBERS" ->
             WIKICATEGORYMEMBERS(loc, args.opt_namespaces, upstream.response)
      [] fn = "WIKISUBCATEGORIES" ->
             WIKISUBCATEGORIES(loc, args.opt_namespaces, upstream.response)
      [] fn = "WIKICATEGORIES" -> WIKICATEGORIES(loc, upstream.response)
      [] fn = "WIKIINBOUNDLINKS" ->
             WIKIINBOUNDLINKS(loc, args.opt_namespaces, upstream.response)
      [] fn = "WIKIOUTBOUNDLINKS" ->
             WIKIOUTBOUNDLINKS(loc, args.opt_namespaces, upstream.response)
      [] fn = "WIKIMUTUALLINKS" -> WIKIMUTUALLINKS(loc, args.opt_namespaces, upstream)
      [] fn = "WIKIGEOCOORDINATES" -> WIKIGEOCOORDINATES(loc, upstream.response)
      [] fn = "WIKILINKSEARCH" ->
             WIKILINKSEARCH(loc, args.opt_protocol, args.opt_namespaces,
                            upstream.response)
      [] fn = "WIKIDATAFACTS" ->
             WIKIDATAFACTS(loc, args.opt_multiObjectMode, args.opt_properties, upstream)
      [] fn = "WIKIPAGEVIEWS" ->
             WIKIPAGEVIEWS(loc, args.range.start, args.range.end, args.opt_sumOnly,
                           upstream.now, upstream.response)
      [] fn = "WIKIPAGEEDITS" ->
             WIKIPAGEEDITS(loc, args.range.start, args.range.end, upstream.now,
                           upstream.response)
      [] fn = "WIKISEARCH" ->
             WIKISEARCH(loc, args.opt_didYouMean, args.opt_namespaces, upstream.response)
      [] fn = "WIKIDATAQID" -> WIKIDATAQID(loc, upstream.response)
      [] fn = "GOOGLESUGGEST" -> GOOGLESUGGEST(loc, upstream.response)

\* a title: text that is not empty and holds no line terminator
IsTitle(s) == s # <<>> /\ \A i \in 1..Len(s) : s[i] \notin LineTerminators

\* the call was made with a bare subject: a title without a colon, or for
\* the category functions a namespace-prefixed title with exactly one colon
BareSubjectCall ==
    /\ LocatorCall
    /\ IsTitle(LocatorOf.s)
    /\ CountColons(LocatorOf.s) = (IF fn \in CategoryFunctions THEN 1 ELSE 0)

\* C14: calling a locator-taking entry point with the bare subject s and
\* calling it with 'en:' + s build the same upstream requests and return the
\* same result on the same upstream data, for every s that is a title
\* without a colon (article, query, file and link-pattern functions) and for
\* every s that is a namespace-prefixed title with exactly one colon, such as
\* 'Category:Berlin' (WIKICATEGORYMEMBERS, WIKISUBCATEGORIES).
C14_BareSubjectIsEnSubject ==
    BareSubjectCall =>
        LET prefixed == SameCallWith(JsStr(<<"e", "n", ":">> \o LocatorOf.s))
        IN  /\ prefixed.ret = result
            /\ prefixed.reqs = requests

\* WIKICATEGORYMEMBERS was called with a namespace-prefixed title, asked the
\* 'en' site for it and returned a member
C14_PrefixedCategoryCalled ==
    /\ BareSubjectCall
    /\ fn = "WIKICATEGORYMEMBERS"
    /\ LocatorOf.s = <<"a", ":", "a">>
    /\ requests # <<>>
    /\ requests[1].language = <<"e", "n">>
    /\ requests[1].title = <<"a", "%3A", "a">>
    /\ result = JsArr(<<X>>)

(***************************************************************************)
(* State that outlives a call.                                             *)
(***************************************************************************)
\* the value and the requests of the call of this state, made once more in
\* this state: the entry point on the same arguments, upstream and clock
SameCall ==
    CASE fn \in LocatorFunctions -> SameCallWith(LocatorOf)
      [] fn = "WIKIPAGEVIEWSPERARTICLE" ->
             WIKIPAGEVIEWSPERARTICLE(args.project, args.article, args.options.access, args.options.agent, args.options.granularity, args.range.start, args.range.end, args.opt_sumOnly, upstream.now, upstream.response)
      [] fn = "WIKIPAGEVIEWSAGGREGATE" ->
             WIKIPAGEVIEWSAGGREGATE(args.project, args.options.access, args.options.agent, args.options.granularity, args.range.start, args.range.end, upstream.now, upstream.response)
      [] fn = "WIKIPAGEVIEWSTOP" ->
             WIKIPAGEVIEWSTOP(args.project, args.options.access, args.range.start,
                              upstream.now, upstream.response)
      [] fn = "WIKIUNIQUEDEVICES" ->
             WIKIUNIQUEDEVICES(args.project, args.options.access, args.options.granularity, args.range.start, args.range.end, upstream.now, upstream.response)
      [] fn = "WIKIDATALABELS" ->
             WIKIDATALABELS(args.qid, args.opt_targetLanguages, upstream.response)
      [] fn = "WIKIDATADESCRIPTIONS" ->
             WIKIDATADESCRIPTIONS(args.qid, args.opt_targetLanguages, upstream.response)
      [] fn = "WIKIQUARRY" -> WIKIQUARRY(args.queryId, upstream.response)

IsSynonymsRequest(request) ==
    request.api = "backlinks" /\ "filterredir" \in DOMAIN request
IsInboundRequest(request) ==
    request.api = "backlinks" /\ "filterredir" \notin DOMAIN request
IsOutboundRequest(request) == request.api = "links"
IsLangLinksRequest(request) == request.api = "langlinks"
IsClaimsRequest(request) == request.api = "wbgetentities" /\ request.props = "claims"
IsLabelsRequest(request) == request.api = "wbgetentities" /\ request.props = "labels"

\* WIKIMUTUALLINKS issued nothing, or one inbound-links request and then one
\* outbound-links request
MutualLinksRequests ==
    \/ requests = <<>>
    \/ /\ Len(requests) = 2
       /\ IsInboundRequest(requests[1])
       /\ IsOutboundRequest(requests[2])

\* the rows [language, translation] WIKITRANSLATE returns for the arguments
\* and the langlinks response of a call of WIKIEXPAND
TranslationRows ==
    RowsOf(WIKITRANSLATE(args.article, args.opt_targetLanguages, FALSE, FALSE,
                         upstream.langlinks).ret)

\* WIKIEXPAND issued nothing, or one langlinks request and then one synonyms
\* request per row of the given translation rows, in their order
ExpandRequestsFor(rows) ==
    \/ requests = <<>>
    \/ /\ Len(requests) = 1 + Len(rows)
       /\ IsLangLinksRequest(requests[1])
       /\ \A i \in 1..Len(rows) :
              /\ IsSynonymsRequest(requests[i + 1])
              /\ requests[i + 1].language = rows[i].a[1].s
              /\ requests[i + 1].title = EncodeTitle(rows[i].a[2].s)

\* the translation rows whose translation is not the empty string
TranslatedRows == SelectSeq(TranslationRows, LAMBDA row : row.a[2] # EmptyString)

\* WIKIDATAFACTS issued nothing, or one claims request and then labels
\* requests that each name at most ChunkSize ids, all but the last of them
\* exactly ChunkSize
FactsRequests ==
    \/ requests = <<>>
    \/ /\ IsClaimsRequest(requests[1])
       /\ \A i \in 2..Len(requests) :
              /\ IsLabelsRequest(requests[i])
              /\ Len(requests[i].ids) \in 1..ChunkSize
              /\ i < Len(requests) => Len(requests[i].ids) = ChunkSize

SameRequest(a, b) ==
    /\ a.api = b.api
    /\ DOMAIN a = DOMAIN b
    /\ "props" \in DOMAIN a => a.props = b.props
    /\ a = b

SynonymsLanguages ==
    LET asked == SelectSeq(requests, IsSynonymsRequest)
    IN  [i \in 1..Len(asked) |-> asked[i].language]

\* C18: requests are strictly sequential.  Every fetch is a blocking call,
\* so the requests of an invocation are issued one at a time, each after the
\* response to the one before it; in WIKIEXPAND the langlinks request comes
\* first and the synonyms requests follow one after another in the order of
\* the translation languages; in WIKIMUTUALLINKS the inbound-links request
\* comes before the outbound-links request.
C18_RequestsAreSequential ==
    /\ fn = "WIKIEXPAND" =>
           /\ \A i \in 1..Len(requests) : IsLangLinksRequest(requests[i]) <=> i = 1
           /\ SynonymsLanguages = [i \in 1..Len(TranslatedRows) |-> TranslatedRows[i].a[1].s]
    /\ fn = "WIKIMUTUALLINKS" =>
           \A i, j \in 1..Len(requests) :
               (IsInboundRequest(requests[i]) /\ IsOutboundRequest(requests[j])) => i < j

\* WIKIEXPAND asked for the langlinks and then for the synonyms in two
\* languages, in the order of the rows of the translation
C18_SynonymsAskedInOrder ==
    /\ fn = "WIKIEXPAND"
    /\ Len(requests) = 3
    /\ IsLangLinksRequest(requests[1])
    /\ SynonymsLanguages = <<De, Fr>>
    /\ Readable(upstream.langlinks)

(***************************************************************************)
(* The dates of WIKIPAGEEDITS.                                             *)
(***************************************************************************)
\* how a date goes into the revisions request: text as it is, a Date object
\* as its day with the time of day, an omitted date as the default day with
\* the time of day
EditsDate(opt, defaultDay, timeOfDay) ==
    CASE opt = Undefined -> [day |-> defaultDay, format |-> "YYYY-MM-DD" \o timeOfDay]
      [] opt.t = "date" -> [day |-> opt.n, format |-> "YYYY-MM-DD" \o timeOfDay]
      [] opt.t = "string" -> [text |-> opt.s]

\* C19: WIKIPAGEEDITS passes the caller's end date, or today when it is
\* omitted, as the upstream 'rvstart' parameter and the caller's start date,
\* or the day 30 days ago when it is omitted, as the upstream 'rvend'
\* parameter, for every combination of supplied and omitted dates.
C19_EditsDatesAreSwapped ==
    (fn = "WIKIPAGEEDITS" /\ requests # <<>>) =>
        /\ requests[1].rvstart = EditsDate(args.range.end, upstream.now, "T23:59:59")
        /\ requests[1].rvend = EditsDate(args.range.start, upstream.now - 30, "T00:00:00")

\* WIKIPAGEEDITS called with a start date and no end date: the start date is
\* the request's rvend, and today is its rvstart
C19_StartGivenEndOmitted ==
    /\ fn = "WIKIPAGEEDITS"
    /\ requests # <<>>
    /\ args.range = [start |-> JsStr(<<"20160101">>), end |-> Undefined]
    /\ requests[1].rvend = [text |-> <<"20160101">>]
    /\ requests[1].rvstart = [day |-> upstream.now, format |-> "YYYY-MM-DDT23:59:59"]

(***************************************************************************)
(* The multi-object mode of WIKIDATAFACTS.                                 *)
(***************************************************************************)
\* WIKIDATAFACTS fetched the claims of an entity and could read them
FactsAnswered ==
    /\ fn = "WIKIDATAFACTS"
    /\ requests # <<>>
    /\ Readable(upstream.claims)
    /\ ~MisshapenClaims(upstream.claims)

\* the usable values of a property: those of its statements that have one
UsableValues(entry) == simpifyClaim(entry.statements)

\* the property is asked for: no properties are named, or it is among them
AskedFor(property) ==
    LET named == NormalizeList(args.opt_properties)
    IN  Len(named) = 0 \/ \E k \in 1..Len(named) : named[k] = property

\* the values of a property the mode lets through: the only one in every
\* mode, and of several none without a mode, the first with 'first', all of
\* them in statement order with 'all'
ValuesForMode(values, mode) ==
    IF Len(values) = 1 THEN values
    ELSE IF Len(values) > 1 /\ IsFirst(mode) THEN <<values[1]>>
    ELSE IF Len(values) > 1 /\ IsAll(mode) THEN values
    ELSE <<>>

\* C20 as the specification words it: for a Wikidata property with n usable
\* values, WIKIDATAFACTS returns one row when n = 1, in every mode; and when
\* n > 1, no row if opt_multiObjectMode is absent, one row holding the first
\* value if it is 'first', and one row per value in statement order if it is
\* 'all' (the mode is matched case-insensitively).  Counted over the
\* properties asked for, when no fetch of the call failed.
C20_RowsPerMultiObjectMode ==
    (FactsAnswered /\ ~FailedFetch) =>
        LET entries == upstream.claims.entries
            through(i) ==
                IF AskedFor(entries[i].property)
                THEN ValuesForMode(UsableValues(entries[i]), args.opt_multiObjectMode)
                ELSE <<>>
        IN  Len(RowsOf(result)) = Len(Flatten([i \in 1..Len(entries) |-> through(i)]))

\* the labels the call fetched: those of the properties asked for and of the
\* items among the values
FetchedLabels ==
    LET entries == upstream.claims.entries
        properties == SelectSeq([i \in 1..Len(entries) |-> entries[i].property], AskedFor)
    IN  getPropertyAndEntityLabels(properties \o CollectQids(entries),
                                   upstream.labels).labels

\* C20, amended: for a Wikidata property with n usable values, WIKIDATAFACTS
\* lets through the only value when n = 1, in every mode; and when n > 1, no
\* value if opt_multiObjectMode is absent, the first value if it is 'first',
\* and every value in statement order if it is 'all' (matched
\* case-insensitively).  It returns one row [label of the property, value]
\* per value let through, an item being shown by its English label; a
\* property without a fetched English label yields no row, and so does a
\* value let through that is an item without a fetched English label.  A
\* value is taken for an item when its text is Q followed by digits.
C20_RowsPerMultiObjectModeWhenLabelled ==
    FactsAnswered =>
        LET entries == upstream.claims.entries
            labels == FetchedLabels
            rows(i) ==
                LET label == LabelOf(labels, entries[i].property)
                    through == ValuesForMode(UsableValues(entries[i]),
                                             args.opt_multiObjectMode)
                    shown == SelectSeq(through, LAMBDA v : ~Falsy(FactValue(labels, v)))
                IN  IF Falsy(label) THEN <<>>
                    ELSE [k \in 1..Len(shown) |->
                             JsArr(<<label, FactValue(labels, shown[k])>>)]
        IN  result = NonEmptyOrEmptyString(Flatten([i \in 1..Len(entries) |-> rows(i)]))

\* WIKIDATAFACTS called in mode 'All' for an entity whose one property has a
\* string and an item as values: two rows, in statement order
C20_AllValuesReturned ==
    /\ FactsAnswered
    /\ IsAll(args.opt_multiObjectMode)
    /\ upstream.claims = Doc(<<[property |-> P1,
                                statements |-> <<StringStatement, ItemStatement("1")>>]>>)
    /\ result = JsArr(<<JsArr(<<JsStr(<<"label of">> \o P1), JsStr(<<"v">>)>>),
                        JsArr(<<JsStr(<<"label of">> \o P1),
                                JsStr(<<"label of">> \o Q1)>>)>>)

(***************************************************************************)
(* The property allow-list of WIKIDATAFACTS.                               *)
(***************************************************************************)
\* the ids opt_properties names
FilterIds ==
    LET opt == args.opt_properties
    IN  IF Falsy(opt) THEN {}
        ELSE IF opt.t = "array" THEN {opt.a[i].s : i \in 1..Len(opt.a)}
        ELSE {opt.s}

\* the same call without opt_properties, on the same upstream data
Unfiltered ==
    WIKIDATAFACTS(args.article, args.opt_multiObjectMode, Undefined, upstream)

\* every request a WIKIDATAFACTS call made was answered and understood
Answered(reqs) ==
    /\ reqs # <<>>
    /\ ~Failed(upstream.claims)
    /\ \A c \in 1..(Len(reqs) - 1) : ~Failed(LabelsResponse(upstream.labels, c))

\* C21: with a non-empty opt_properties (one property id or a list),
\* WIKIDATAFACTS returns rows only for properties whose id is in
\* opt_properties, and for those properties exactly the rows it returns for
\* them without the filter; with opt_properties absent or empty no property
\* is filtered out.  A row is attributed to its property by the property's
\* label in its first cell; the two calls are compared when every request of
\* both was answered.
C21_FilterKeepsTheRowsOfListedProperties ==
    (fn = "WIKIDATAFACTS" /\ Answered(requests) /\ Answered(Unfiltered.reqs)) =>
        LET rows == RowsOf(Unfiltered.ret)
            listed(row) == \E id \in FilterIds : row.a[1] = JsStr(<<"label of">> \o id)
            expected == IF FilterIds = {} THEN rows ELSE SelectSeq(rows, listed)
        IN  result = NonEmptyOrEmptyString(expected)

\* WIKIDATAFACTS called with a list of properties that leaves out a property
\* the unfiltered call returns a row for, and names one it returns a row for
C21_PropertyFilteredOut ==
    /\ fn = "WIKIDATAFACTS"
    /\ Answered(requests)
    /\ Answered(Unfiltered.reqs)
    /\ args.opt_properties.t = "array"
    /\ Len(RowsOf(result)) > 0
    /\ Len(RowsOf(result)) < Len(RowsOf(Unfiltered.ret))

(***************************************************************************)
(* The target languages of WIKITRANSLATE.                                  *)
(***************************************************************************)
\* the codes opt_targetLanguages names
TargetLanguageSet ==
    LET opt == args.opt_targetLanguages
    IN  IF Falsy(opt) THEN {}
        ELSE IF opt.t = "array" THEN {opt.a[i].s : i \in 1..Len(opt.a)}
        ELSE {opt.s}

\* the rows of the call with their languages: those of the same call with
\* the header when the call skipped it
TranslateTable ==
    IF args.opt_skipHeader
    THEN RowsOf(WIKITRANSLATE(args.article, args.opt_targetLanguages, FALSE, FALSE,
                              upstream.response).ret)
    ELSE RowsOf(result)

\* the language the article is in: that of the site asked
OwnLanguage == requests[1].language

\* the langlinks request was answered with a list of well-formed langlinks
LangLinksRead ==
    /\ requests # <<>>
    /\ Readable(upstream.response)
    /\ \A i \in 1..Len(upstream.response.entries) :
           upstream.response.entries[i].lang # Undefined

\* C22: with a non-empty opt_targetLanguages, every row WIKITRANSLATE returns
\* has a language that is in opt_targetLanguages or is the article's own
\* language, and langlinks in any other language are omitted; with no target
\* languages every langlink of the response (in a language other than the
\* article's own, whose row holds the article's title) is returned.  A call
\* that skips the header returns the second column of these rows.
C22_TargetLanguagesFilterRows ==
    fn = "WIKITRANSLATE" =>
        LET table == TranslateTable
            entries == upstream.response.entries
        IN  /\ args.opt_skipHeader =>
                   RowsOf(result) = [i \in 1..Len(table) |-> table[i].a[2]]
            /\ (TargetLanguageSet # {} /\ requests # <<>>) =>
                   \A i \in 1..Len(table) :
                       table[i].a[1].s \in TargetLanguageSet \cup {OwnLanguage}
            /\ (TargetLanguageSet = {} /\ LangLinksRead) =>
                   \A k \in 1..Len(entries) :
                       entries[k].lang.s # OwnLanguage =>
                           \E i \in 1..Len(table) :
                               table[i] = JsArr(<<entries[k].lang, JsStr(entries[k].text)>>)

\* WIKITRANSLATE called for German only on an article that has a German and
\* a French langlink: the French one is left out
C22_FrenchLangLinkOmitted ==
    /\ fn = "WIKITRANSLATE"
    /\ args.opt_targetLanguages = JsStr(De)
    /\ ~args.opt_skipHeader
    /\ LangLinksRead
    /\ \E k \in 1..Len(upstream.response.entries) :
           upstream.response.entries[k].lang = JsStr(Fr)
    /\ \E i \in 1..Len(RowsOf(result)) : RowsOf(result)[i].a[1] = JsStr(De)
    /\ \A i \in 1..Len(RowsOf(result)) : RowsOf(result)[i].a[1] # JsStr(Fr)

(***************************************************************************)
(* The target languages as a set.                                          *)
(***************************************************************************)
\* the lists that hold the codes of opt_targetLanguages, each at least once,
\* in any order and with at most one repetition
SameCodeLists ==
    LET codes == {JsStr(c) : c \in TargetLanguageSet}
    IN  {JsArr(s) : s \in {q \in SeqsUpTo(codes, Cardinality(codes) + 1) :
                               {q[i] : i \in 1..Len(q)} = codes}}

\* the synonyms requests of the call that went to the site of a language
SynonymsRequestsTo(language) ==
    {i \in 1..Len(requests) :
        IsSynonymsRequest(requests[i]) /\ requests[i].language = language}

\* whichever of the lists is passed, the call returns the same set of rows,
\* with at most one row per language code
SameRowsForSameCodes ==
    /\ fn = "WIKITRANSLATE" =>
           /\ \A list \in SameCodeLists :
                  ElementsOf(WIKITRANSLATE(args.article, list, args.opt_skipHeader,
                                           FALSE, upstream.response).ret)
                      = ElementsOf(result)
           /\ \A i, j \in 1..Len(TranslateTable) :
                  TranslateTable[i].a[1] = TranslateTable[j].a[1] => i = j
    /\ fn = "WIKIEXPAND" =>
           /\ \A list \in SameCodeLists :
                  ElementsOf(WIKIEXPAND(args.article, list, upstream).ret)
                      = ElementsOf(result)
           /\ \A i, j \in 1..Len(RowsOf(result)) :
                  RowsOf(result)[i].a[1] = RowsOf(result)[j].a[1] => i = j

PlaceSubject ==
    IF IndexOfColon(LocatorOf.s) = 0
    THEN LocatorOf.s
    ELSE FirstLine(AfterFirstColon(LocatorOf.s))

\* C24: WIKIARTICLESAROUND treats the subject as a point exactly when it
\* matches the latitude,longitude pattern, with or without a language prefix:
\* then the request carries the coordinates (gscoord: the text before the
\* comma and the text after it) and no page title; otherwise it carries the
\* page title (gspage) and no coordinates; every request carries exactly one
\* of the two.
C24_PointOrPage ==
    fn = "WIKIARTICLESAROUND" =>
        /\ \A k \in 1..Len(requests) :
               ("gscoord" \in DOMAIN requests[k]) # ("gspage" \in DOMAIN requests[k])
        /\ (LocatorOf.t = "string" /\ PlaceSubject # <<>>) =>
               /\ Len(requests) = 1
               /\ IF IsPoint(PlaceSubject)
                  THEN /\ "gscoord" \in DOMAIN requests[1]
                       /\ LET comma == IndexOf(PlaceSubject, ",")
                          IN  requests[1].gscoord =
                                  SubSeq(PlaceSubject, 1, comma - 1) \o <<"%7C">>
                                  \o SubSeq(PlaceSubject, comma + 1, Len(PlaceSubject))
                  ELSE /\ "gspage" \in DOMAIN requests[1]
                       /\ requests[1].gspage = EncodeTitle(PlaceSubject)

\* WIKIARTICLESAROUND called with a point after a language: the request
\* goes to that language's site with the coordinates
C24_PointAfterLanguage ==
    /\ fn = "WIKIARTICLESAROUND"
    /\ args.articleOrPoint = JsStr(<<"d", "e", ":", "1", ",", "1">>)
    /\ Len(requests) = 1
    /\ requests[1].language = De
    /\ "gspage" \notin DOMAIN requests[1]
    /\ requests[1].gscoord = <<"1", "%7C", "1">>

(***************************************************************************)
(* The sum of the views.                                                   *)
(***************************************************************************)
\* a call of one of the two functions with opt_sumOnly that made its request
SumOnlyCall ==
    /\ fn \in {"WIKIPAGEVIEWS", "WIKIPAGEVIEWSPERARTICLE"}
    /\ args.opt_sumOnly
    /\ requests # <<>>

\* the table the same call returns without opt_sumOnly on the same upstream
\* data
ViewsTable ==
    RowsOf(IF fn = "WIKIPAGEVIEWS"
           THEN WIKIPAGEVIEWS(args.article, args.range.start, args.range.end, FALSE,
                              upstream.now, upstream.response).ret
           ELSE WIKIPAGEVIEWSPERARTICLE(args.project, args.article, args.options.access,
                                        args.options.agent, args.options.granularity,
                                        args.range.start, args.range.end, FALSE,
                                        upstream.now, upstream.response).ret)

\* the sum of the numbers of a list
RECURSIVE Total(_)
Total(numbers) ==
    IF numbers = <<>> THEN 0
    ELSE numbers[1].n + Total(SubSeq(numbers, 2, Len(numbers)))

\* the response is a list of items that each have a timestamp and a number
\* of views
ItemsWellFormed ==
    /\ Readable(upstream.response)
    /\ \A i \in 1..Len(upstream.response.entries) :
           /\ upstream.response.entries[i].timestamp # Undefined
           /\ upstream.response.entries[i].views.t = "number"

\* C25: with opt_sumOnly set, WIKIPAGEVIEWS and WIKIPAGEVIEWSPERARTICLE
\* return a one-element list whose element is the sum of the views of all
\* items of the upstream response, i.e. the sum of the views column of the
\* table the same call returns without opt_sumOnly on the same upstream data.
\* The sums are compared for a response whose items are well formed.
C25_SumOnlyIsTheSumOfTheViews ==
    SumOnlyCall =>
        /\ result.t = "array"
        /\ Len(result.a) = 1
        /\ ItemsWellFormed =>
               LET entries == upstream.response.entries
               IN  /\ result.a[1] = JsNum(Total([i \in 1..Len(entries) |-> entries[i].views]))
                   /\ result.a[1] = JsNum(Total([i \in 1..Len(ViewsTable) |->
                                                    ViewsTable[i].a[2]]))

\* WIKIPAGEVIEWSPERARTICLE called with opt_sumOnly on a response with 5 and
\* 7 views: the list holding 12
C25_TwoDaysSummed ==
    /\ SumOnlyCall
    /\ fn = "WIKIPAGEVIEWSPERARTICLE"
    /\ ItemsWellFormed
    /\ Len(ViewsTable) = 2
    /\ result = JsArr(<<JsNum(12)>>)

(***************************************************************************)
(* The language of GOOGLESUGGEST.                                          *)
(***************************************************************************)
\* C26: GOOGLESUGGEST(keyword, opt_language) requests suggestions for the
\* keyword (its whole first argument) in the language given as its second
\* argument, and in 'en' when the second argument is omitted.
C26_SuggestInTheLanguageOfTheSecondArgument ==
    (fn = "GOOGLESUGGEST" /\ ~Falsy(args.query)) =>
        /\ Len(requests) = 1
        /\ requests[1].title = EncodeURIComponent(args.query.s)
        /\ requests[1].language =
               IF Falsy(args.opt_language) THEN <<"e", "n">> ELSE args.opt_language.s

(***************************************************************************)
(* The rows of WIKIPAGEEDITS.                                              *)
(***************************************************************************)
\* the revisions request was answered with a list of one or more revisions
\* that each have a timestamp and a size
RevisionsRead ==
    /\ fn = "WIKIPAGEEDITS"
    /\ requests # <<>>
    /\ Readable(upstream.response)
    /\ Len(upstream.response.entries) > 0
    /\ \A i \in 1..Len(upstream.response.entries) :
           /\ IsStamp(upstream.response.entries[i].timestamp)
           /\ upstream.response.entries[i].size # Undefined

\* C27: for an upstream revision list r_0 .. r_(n-1) in the order received,
\* WIKIPAGEEDITS returns exactly n-1 rows, row i being [timestamp of r_i,
\* size(r_i) - size(r_(i+1))]; the last revision of the list gets no row, and
\* a response with a single revision yields the empty result.
C27_OneRowPerRevisionButTheLast ==
    RevisionsRead =>
        LET revs == upstream.response.entries
            n == Len(revs)
            rows == RowsOf(result)
        IN  /\ Len(rows) = n - 1
            /\ \A i \in 1..(n - 1) :
                   rows[i] = JsArr(<<JsDate(InstantOf(revs[i])),
                                     JsNum(revs[i].size.n - revs[i + 1].size.n)>>)
            /\ n = 1 => result = EmptyString

\* WIKIPAGEEDITS answered with three revisions of sizes 10, 7 and 8: two
\* rows, of deltas 3 and -1
C27_ThreeRevisionsTwoRows ==
    /\ RevisionsRead
    /\ Len(upstream.response.entries) = 3
    /\ Len(RowsOf(result)) = 2
    /\ RowsOf(result)[1].a[2] = JsNum(3)
    /\ RowsOf(result)[2].a[2] = JsNum(-1)

(***************************************************************************)
(* The rows of WIKITRANSLATE.                                              *)
(***************************************************************************)
\* the article's own title: the locator without its language, with spaces
\* for underscores
OwnTitle ==
    LET s == args.article.s
        subject == IF IndexOfColon(s) = 0 THEN s ELSE FirstLine(AfterFirstColon(s))
    IN  [i \in 1..Len(subject) |-> IF subject[i] = "_" THEN " " ELSE subject[i]]

\* the title the response has for a language, <<>> when it has none
LangLinkTitles(language) ==
    {upstream.response.entries[k].text :
        k \in {j \in 1..Len(upstream.response.entries) :
                  upstream.response.entries[j].lang = JsStr(language)}}

\* the call has a row of this language and title
HasTranslation(language, title) ==
    \E i \in 1..Len(TranslateTable) :
        TranslateTable[i] = JsArr(<<JsStr(language), JsStr(title)>>)

\* C28: when its request succeeds and target languages are given,
\* WIKITRANSLATE returns a row for every non-empty requested language,
\* holding the langlink title when the response has one for that language
\* and otherwise the article's own title with underscores replaced by spaces;
\* and on every successful request it returns a row for the article's own
\* language holding that title, overriding any langlink in that language.
C28_RowForEveryRequestedLanguage ==
    (fn = "WIKITRANSLATE" /\ LangLinksRead) =>
        /\ \A language \in TargetLanguageSet \ {<<>>, OwnLanguage} :
               IF LangLinkTitles(language) = {}
               THEN HasTranslation(language, OwnTitle)
               ELSE \E title \in LangLinkTitles(language) : HasTranslation(language, title)
        /\ HasTranslation(OwnLanguage, OwnTitle)
        /\ \A i \in 1..Len(TranslateTable) :
               TranslateTable[i].a[1] = JsStr(OwnLanguage) =>
                   TranslateTable[i].a[2] = JsStr(OwnTitle)

\* WIKITRANSLATE('de:B_b', ['de', 'fr']) on an article whose response has
\* a German langlink and no French one: the French row and the German row
\* hold the article's title with a space for the underscore
C28_MissingLanguageFilledWithOwnTitle ==
    /\ fn = "WIKITRANSLATE"
    /\ LangLinksRead
    /\ args.article = JsStr(<<"d", "e", ":", "B", "_", "b">>)
    /\ args.opt_targetLanguages = JsArr(<<JsStr(De), JsStr(Fr)>>)
    /\ LangLinkTitles(De) = {<<"X">>}
    /\ LangLinkTitles(Fr) = {}
    /\ HasTranslation(De, <<"B", " ", "b">>)
    /\ HasTranslation(Fr, <<"B", " ", "b">>)
    /\ Len(TranslateTable) = 2

(***************************************************************************)
(* The value cells of WIKIDATAFACTS.                                       *)
(***************************************************************************)
\* the statement has a value
HasValue(statement) ==
    /\ statement.mainsnak \notin {Null, Undefined}
    /\ statement.mainsnak.datavalue \notin {Null, Undefined}

\* the statement refers to an item
RefersToItem(statement) == statement.mainsnak.datatype = "wikibase-item"

\* the id of the item the statement refers to
ItemOf(statement) == <<"Q">> \o statement.mainsnak.datavalue.value.numericId

\* the English label the labels responses have for an id, if they have one
EnglishLabels(id) ==
    {upstream.labels[c].labels[id] :
        c \in {d \in 1..Len(upstream.labels) :
                  /\ Readable(upstream.labels[d])
                  /\ id \in DOMAIN upstream.labels[d].labels}}

\* the value cell a statement can show: its literal value, or the English
\* label of the item it refers to
ShownValues(statement) ==
    IF RefersToItem(statement)
    THEN {JsStr(label) : label \in EnglishLabels(ItemOf(statement))}
    ELSE {statement.mainsnak.datavalue.value}

\* C29: in every row WIKIDATAFACTS returns, the value cell is either the
\* literal value of a non-item statement or the English label of the item
\* the statement refers to; a raw Q-id is never returned, and a statement
\* whose property or whose referenced item has no English label produces no
\* row.  A row belongs to the property whose English label is in its first
\* cell, and shows one of the statements of that property.
C29_ValueIsLiteralOrItemLabel ==
    FactsAnswered =>
        LET entries == upstream.claims.entries
            rows == RowsOf(result)
        IN  \A i \in 1..Len(rows) :
                /\ ~(rows[i].a[2].t = "string" /\ IsQid(rows[i].a[2].s))
                /\ \E k \in 1..Len(entries) :
                       /\ rows[i].a[1] \in
                              {JsStr(label) : label \in EnglishLabels(entries[k].property)}
                       /\ \E j \in 1..Len(entries[k].statements) :
                              /\ HasValue(entries[k].statements[j])
                              /\ rows[i].a[2] \in ShownValues(entries[k].statements[j])

(***************************************************************************)
(* The chunks of getPropertyAndEntityLabels.                               *)
(***************************************************************************)
\* the list of ids whose labels are looked up: the properties asked for,
\* then the items the statements refer to
IdsToLabel ==
    LET entries == upstream.claims.entries
    IN  SelectSeq([i \in 1..Len(entries) |-> entries[i].property], AskedFor)
        \o CollectQids(entries)

\* the number of chunks of at most ChunkSize a list of n ids makes
ChunksOf(n) == (n + ChunkSize - 1) \div ChunkSize

\* the c-th labels request was answered
ChunkAnswered(c) == Readable(LabelsResponse(upstream.labels, c))

\* the chunks that are requested: all of them, or those up to the first one
\* whose request fails
ChunksRequested ==
    LET all == 1..ChunksOf(Len(IdsToLabel))
        failed == {c \in all : ~ChunkAnswered(c)}
    IN  IF failed = {} THEN all
        ELSE 1..(CHOOSE c \in failed : \A d \in failed : c <= d)

\* the English label obtained for an id that is in an answered chunk
ObtainedLabels(id) ==
    {JsStr(upstream.labels[c].labels[id]) :
        c \in {d \in ChunksRequested :
                  /\ ChunkAnswered(d)
                  /\ \E k \in 1..Len(requests[d + 1].ids) : requests[d + 1].ids[k] = id
                  /\ id \in DOMAIN upstream.labels[d].labels}}

\* C30: getPropertyAndEntityLabels looks the ids up in consecutive chunks of
\* at most 50: for a list of n ids it issues ceil(n/50) label requests and
\* every position of the list falls in exactly one chunk, in list order; if
\* the request for a chunk fails, the labels of the earlier chunks are kept,
\* no later chunk is requested, and WIKIDATAFACTS returns only the facts
\* whose labels were obtained.
C30_LabelsAreLookedUpInChunks ==
    FactsAnswered =>
        LET ids == IdsToLabel
            n == Len(ids)
            entries == upstream.claims.entries
            rows == RowsOf(result)
        IN  /\ Len(requests) = 1 + Cardinality(ChunksRequested)
            /\ (\A c \in 1..ChunksOf(n) : ChunkAnswered(c)) =>
                   Len(requests) = 1 + ChunksOf(n)
            /\ \A c \in ChunksRequested :
                   /\ IsLabelsRequest(requests[c + 1])
                   /\ requests[c + 1].ids =
                          SubSeq(ids, (c - 1) * ChunkSize + 1,
                                 IF c * ChunkSize < n THEN c * ChunkSize ELSE n)
            /\ \A i \in 1..Len(rows) :
                   \E k \in 1..Len(entries) :
                       rows[i].a[1] \in ObtainedLabels(entries[k].property)
            /\ \A k \in 1..Len(entries) :
                   (/\ entries[k].statements = <<StringStatement>>
                    /\ ObtainedLabels(entries[k].property) # {}) =>
                       \E i \in 1..Len(rows) :
                           /\ rows[i].a[1] \in ObtainedLabels(entries[k].property)
                           /\ rows[i].a[2] = StringStatement.mainsnak.datavalue.value

\* WIKIDATAFACTS on an entity with 51 properties, the first labels request
\* answered and the second failing: three requests, and the rows of the two
\* properties whose labels the first response holds
C30_SecondChunkFailed ==
    /\ FactsAnswered
    /\ Len(IdsToLabel) = ChunkSize + 1
    /\ ChunkAnswered(1)
    /\ ~ChunkAnswered(2)
    /\ Len(requests) = 3
    /\ Len(requests[2].ids) = ChunkSize
    /\ Len(requests[3].ids) = 1
    /\ Len(RowsOf(result)) = 2

=============================================================================
